---- MODULE Spec2Model ----
(***************************************************************************)
(* ThermalStackFEA2: the lattice of control volumes (element.py), the      *)
(* conductive links (node.py) and the ThermalModel builder and solver      *)
(* (thermal_model.py).                                                     *)
(*                                                                         *)
(* Python floats are modelled as exact rationals <<numerator,denominator>> *)
(* in lowest terms with a positive denominator; sizes are whole multiples  *)
(* of one length unit.  Python objects live in a heap (els) and are named  *)
(* by their position in it, so that identity and aliasing are visible.     *)
(***************************************************************************)
EXTENDS Integers, Sequences, FiniteSets, TLC

\* the attributes of a ThermalModel (thermal_model.py, __init__); els is the heap
\* of Element objects, an element reference is a position in it
VARIABLES elements, els, x_el_qty_old, y_el_qty_old, z_el_qty_old, vol_max, nodes,
          labels_to_observe_T_avg, elements_to_observe_T_avg,
          labels_to_observe_T_max, elements_to_observe_T_max,
          labels_to_observe_P, elements_to_observe_P,
          label_to_converge, elements_to_converge,
          elements_to_power, elements_to_CoE, elements_to_prescribe_T, df
\* frame: the arguments and locals of the running solve(); pc: where the driver
\* or solve() stands; call: the last call made, its arguments and the exception
\* it raised; hist: the heap as it was when the running solver step began, and the
\* largest rate of the convergence group over the steps of the run
VARIABLES frame, pc, call, hist
\* registered: the kinds of registration call that have completed so far
VARIABLES registered

meshVars == <<elements, els, x_el_qty_old, y_el_qty_old, z_el_qty_old, vol_max, nodes>>
observeVars == <<labels_to_observe_T_avg, elements_to_observe_T_avg,
                 labels_to_observe_T_max, elements_to_observe_T_max,
                 labels_to_observe_P, elements_to_observe_P,
                 label_to_converge, elements_to_converge, registered>>
solveVars == <<elements_to_power, elements_to_CoE, elements_to_prescribe_T, df,
               frame, hist>>
vars == <<meshVars, observeVars, solveVars, pc, call>>

(***************************************************************************)
(* Bounds of the model.                                                    *)
(***************************************************************************)
\* composition calls (extend / modify) after create_volume
MaxOps == 1
\* cells of the lattice envelope
MaxCells == 6
\* solver steps of one solve() call: t_max is MaxSteps * dt
MaxSteps == 3
\* solve() calls on one model
MaxSolves == 1
\* registration calls on one model
MaxRegistrations == 2
\* bits of the mantissa of a float in the model (53 for a Python float)
MantissaBits == 4
\* t_max / dt of the long solve() calls
LongSteps == 6

(***************************************************************************)
(* Exact rational arithmetic standing for Python float arithmetic.         *)
(***************************************************************************)
Abs(n) == IF n < 0 THEN -n ELSE n

RECURSIVE GCD(_, _)
GCD(a, b) == IF b = 0 THEN a ELSE GCD(b, a % b)

Norm(n, d) ==
    LET s == IF d < 0 THEN -1 ELSE 1
        g == GCD(Abs(n), Abs(d))
    IN  <<(s * n) \div g, (s * d) \div g>>

R(n) == <<n, 1>>
\* the greatest common divisor by which two factors are reduced before they
\* are multiplied, so that intermediate products stay small
Common(a, b) == IF GCD(Abs(a), Abs(b)) = 0 THEN 1 ELSE GCD(Abs(a), Abs(b))
RAdd(a, b) ==
    LET g == Common(a[2], b[2])
    IN  Norm(a[1] * (b[2] \div g) + b[1] * (a[2] \div g), (a[2] \div g) * b[2])
RNeg(a) == <<-a[1], a[2]>>
RSub(a, b) == RAdd(a, RNeg(b))
RMul(a, b) ==
    LET g == Common(a[1], b[2])
        h == Common(b[1], a[2])
    IN  Norm((a[1] \div g) * (b[1] \div h), (a[2] \div h) * (b[2] \div g))
RDiv(a, b) == RMul(a, <<b[2], b[1]>>)
RLt(a, b) ==
    LET g == Common(a[2], b[2]) IN a[1] * (b[2] \div g) < b[1] * (a[2] \div g)
RLe(a, b) ==
    LET g == Common(a[2], b[2]) IN a[1] * (b[2] \div g) <= b[1] * (a[2] \div g)
RAbs(a) == <<Abs(a[1]), a[2]>>
\* a >= 0 rounded to the nearest integer instead of truncated
RIntRounds(a) == (2 * a[1] + a[2]) \div (2 * a[2])

\* int(a) for a >= 0
RInt(a) == a[1] \div a[2]

\* Python's None where a float is expected
RNone == <<0, 0>>

\* a / 2^e
Scaled(a, e) == IF e >= 0 THEN RDiv(a, R(2 ^ e)) ELSE RMul(a, R(2 ^ (0 - e)))
\* the exponent e of a positive float a: 2^(MantissaBits-1) <= a / 2^e < 2^MantissaBits
Exponent(a) ==
    CHOOSE e \in -12..12 :
        /\ RLe(R(2 ^ (MantissaBits - 1)), Scaled(a, e))
        /\ RLt(Scaled(a, e), R(2 ^ MantissaBits))
\* the float nearest to the non-negative number a, ties to the even mantissa:
\* the result of a float operation whose exact result is a
FRound(a) ==
    IF a[1] = 0 THEN a
    ELSE LET e == Exponent(a)
             q == Scaled(a, e)
             m == q[1] \div q[2]
             r == q[1] % q[2]
             up == 2 * r > q[2] \/ (2 * r = q[2] /\ m % 2 = 1)
         IN  Scaled(R(IF up THEN m + 1 ELSE m), 0 - e)

(***************************************************************************)
(* A power or temperature argument: a number, or a callable f(t).  The     *)
(* callables are drawn from TimeFn; div is the divisor that                *)
(* compute_element_wise_P wraps around a callable power.                   *)
(***************************************************************************)
Num(v) == [num |-> TRUE, v |-> v, f |-> "none", div |-> 1]
Fn(name) == [num |-> FALSE, v |-> RNone, f |-> name, div |-> 1]
NoFn == [f |-> "none", div |-> 1]

\* "step" is P_of_t of the driver script; "ramp" is a prescribed temperature
TimeFn(name, t) ==
    IF name = "step"
    THEN (IF RLe(t, <<1, 4>>) THEN R(100) ELSE R(0))
    ELSE RAdd(R(-20), RMul(R(40), t))

\* the call fd(t) of a stored callable
CallFn(fd, t) == RDiv(TimeFn(fd.f, t), R(fd.div))

(***************************************************************************)
(* Element (element.py)                                                    *)
(***************************************************************************)
\* Element.__init__ on the object old (a fresh object has no P_of_t / T_of_t)
ElementInit(old, x, y, z, eltype, label, ref, k, T, P, cp, rho) ==
    LET cpv == RMul(RMul(cp, rho), R(1000))
        Pfn == [f |-> P.f, div |-> P.div]
        Tfn == [f |-> T.f, div |-> T.div]
    IN  [x |-> x, y |-> y, z |-> z,
         eltype |-> eltype, label |-> label, ref |-> ref,
         rth_x_half |-> RMul(RDiv(x, RMul(RMul(y, z), k)), <<1, 2>>),
         rth_y_half |-> RMul(RDiv(y, RMul(RMul(x, z), k)), <<1, 2>>),
         rth_z_half |-> RMul(RDiv(z, RMul(RMul(y, x), k)), <<1, 2>>),
         capacitance |-> RMul(RMul(RMul(x, y), z), cpv),
         P_is_constant |-> P.num,
         P |-> IF P.num THEN P.v ELSE CallFn(Pfn, R(0)),
         P_of_t |-> IF P.num THEN old.P_of_t ELSE Pfn,
         T_is_prescribed |-> ~T.num,
         T |-> IF T.num THEN T.v ELSE CallFn(Tfn, R(0)),
         T_of_t |-> IF T.num THEN old.T_of_t ELSE Tfn,
         energy_buffer |-> R(0),
         neighbors |-> <<>>,
         corner |-> <<RNone, RNone, RNone>>]

\* the attributes a not yet initialised object lacks
Blank == [P_of_t |-> NoFn, T_of_t |-> NoFn]

\* Element(x, y, z, eltype, label, ref, k, T, P, cp, rho)
NewElement(x, y, z, pr, T, P) ==
    ElementInit(Blank, x, y, z, pr.eltype, pr.label, pr.ref, pr.k, T, P, pr.cp, pr.rho)

\* Element.modify
ElementModify(e, pr, T, P) ==
    ElementInit(e, e.x, e.y, e.z, pr.eltype, pr.label, pr.ref, pr.k, T, P, pr.cp, pr.rho)

\* accumulate_energy with "=" for "+="
AccumulateEnergyAssigns(e, energy) == [e EXCEPT !.energy_buffer = energy]

\* Element.accumulate_energy
AccumulateEnergy(e, energy) ==
    [e EXCEPT !.energy_buffer = RAdd(e.energy_buffer, energy)]

\* apply_energy_buffer with "T =" for "T +="
ApplyEnergyBufferAssigns(e) ==
    [e EXCEPT !.T = RDiv(e.energy_buffer, e.capacitance),
              !.energy_buffer = R(0)]

\* Element.apply_energy_buffer
ApplyEnergyBuffer(e) ==
    [e EXCEPT !.T = RAdd(e.T, RDiv(e.energy_buffer, e.capacitance)),
              !.energy_buffer = R(0)]

\* self_heat raising the temperature at once instead of filling the buffer
SelfHeatInPlace(e, dt, t) ==
    LET p == IF e.P_is_constant THEN e.P ELSE CallFn(e.P_of_t, t)
    IN  [e EXCEPT !.P = p, !.T = RAdd(e.T, RDiv(RMul(p, dt), e.capacitance))]

\* Element.self_heat(dt, t), t given
SelfHeat(e, dt, t) ==
    IF e.P_is_constant
    THEN AccumulateEnergy(e, RMul(e.P, dt))
    ELSE LET p == CallFn(e.P_of_t, t)
         IN  AccumulateEnergy([e EXCEPT !.P = p], RMul(p, dt))

\* Element.prescribe_temperature
PrescribeTemperature(e, t) ==
    IF e.T_is_prescribed THEN [e EXCEPT !.T = CallFn(e.T_of_t, t)] ELSE e

\* Element.get_size
\* get_size that answers the size along x for every axis
GetSizeAlongX(e, axis) == e.x

GetSize(e, axis) == IF axis = "x" THEN e.x ELSE IF axis = "y" THEN e.y ELSE e.z

(***************************************************************************)
(* Node (node.py): el1, el2 are heap references                            *)
(***************************************************************************)
\* Node.__init__
NewNode(h, el1, el2, orientation) ==
    [el1 |-> el1, el2 |-> el2,
     rth |-> IF orientation = "x" THEN RAdd(h[el1].rth_x_half, h[el2].rth_x_half)
             ELSE IF orientation = "y" THEN RAdd(h[el1].rth_y_half, h[el2].rth_y_half)
             ELSE RAdd(h[el1].rth_z_half, h[el2].rth_z_half)]

\* calculate_heattransfer adding q to both elements
CalculateHeattransferSameSign(h, node, dt) ==
    LET q_dot == RDiv(RSub(h[node.el2].T, h[node.el1].T), node.rth)
        q == RMul(q_dot, dt)
        h1 == [h EXCEPT ![node.el1] = AccumulateEnergy(h[node.el1], q)]
    IN  [h1 EXCEPT ![node.el2] = AccumulateEnergy(h1[node.el2], q)]

\* Node.calculate_heattransfer on the heap h
CalculateHeattransfer(h, node, dt) ==
    LET q_dot == RDiv(RSub(h[node.el2].T, h[node.el1].T), node.rth)
        q == RMul(q_dot, dt)
        h1 == [h EXCEPT ![node.el1] = AccumulateEnergy(h[node.el1], q)]
    IN  [h1 EXCEPT ![node.el2] = AccumulateEnergy(h1[node.el2], RNeg(q))]

(***************************************************************************)
(* The lattice: self.elements is None or a list of lists of lists of       *)
(* element references, addressed elements[x][y][z] from 0.                 *)
(***************************************************************************)
NoElements == [none |-> TRUE, list |-> <<>>]
SomeElements(l) == [none |-> FALSE, list |-> l]

\* the mesh attributes of a ThermalModel
Mesh(e, h, qx, qy, qz) ==
    [elements |-> e, els |-> h,
     x_el_qty_old |-> qx, y_el_qty_old |-> qy, z_el_qty_old |-> qz]

\* what a call leaves: the mesh and the exception it raised ("" for none)
Returned(m) == [m |-> m, raised |-> ""]
Raised(m, exc) == [m |-> m, raised |-> exc]

\* elements[x][y][z] with indices inside the lists
At(m, x, y, z) == m.elements.list[x + 1][y + 1][z + 1]

\* the k-th (from 1) index triple of "for x .. for y .. for z" over qx, qy, qz
ScanCell(k, qy, qz) ==
    <<(k - 1) \div (qy * qz), ((k - 1) \div qz) % qy, (k - 1) % qz>>

\* ThermalModel.compute_element_wise_P; the division is left to the caller's
\* check that total_el_qty is not 0 when P is a number
ComputeElementWiseP(P, total_el_qty) ==
    IF P.num
    THEN Num(RDiv(P.v, R(total_el_qty)))
    ELSE [P EXCEPT !.div = total_el_qty]

\* ThermalModel.create_volume
CreateVolume(m, x_vol, y_vol, z_vol, x_el, y_el, z_el, pr, T, P) ==
    LET x_el_qty == RInt(RDiv(x_vol, x_el))
        y_el_qty == RInt(RDiv(y_vol, y_el))
        z_el_qty == RInt(RDiv(z_vol, z_el))
        total_el_qty == x_el_qty * y_el_qty * z_el_qty
        P_el == ComputeElementWiseP(P, total_el_qty)
        base == Len(m.els)
        fresh == [k \in 1..total_el_qty |-> NewElement(x_el, y_el, z_el, pr, T, P_el)]
        list == [x \in 1..x_el_qty |-> [y \in 1..y_el_qty |-> [z \in 1..z_el_qty |->
                    base + (x - 1) * y_el_qty * z_el_qty + (y - 1) * z_el_qty + z]]]
    IN  IF ~m.elements.none THEN Raised(m, "ValueError")
        ELSE IF P.num /\ total_el_qty = 0 THEN Raised(m, "ZeroDivisionError")
        ELSE Returned(Mesh(SomeElements(list), m.els \o fresh,
                           x_el_qty, y_el_qty, z_el_qty))

\* extend_volume with the divider of polarity +1 one index too low
ExtendDividerOffByOne(qty_old, qty_new, polarity) ==
    IF polarity = 1 THEN qty_old - 1 ELSE qty_new

\* extend_volume: the index at which the next zone starts
ExtendDivider(qty_old, qty_new, polarity) ==
    IF polarity = 1 THEN qty_old ELSE qty_new

\* ThermalModel.extend_volume on an existing mesh with elements on every axis
ExtendVolume(m, axis, polarity, size_extrusion, thickness_element, pr, T, P) ==
    LET added == RInt(RDiv(size_extrusion, thickness_element))
        x_new == m.x_el_qty_old + (IF axis = "x" THEN added ELSE 0)
        y_new == m.y_el_qty_old + (IF axis = "y" THEN added ELSE 0)
        z_new == m.z_el_qty_old + (IF axis = "z" THEN added ELSE 0)
        qty_old == IF axis = "x" THEN m.x_el_qty_old
                   ELSE IF axis = "y" THEN m.y_el_qty_old ELSE m.z_el_qty_old
        qty_new == IF axis = "x" THEN x_new ELSE IF axis = "y" THEN y_new ELSE z_new
        divider == ExtendDivider(qty_old, qty_new, polarity)
        P_el == ComputeElementWiseP(P, x_new * y_new * z_new)
        \* the index of a cell along the extension axis
        along(c) == IF axis = "x" THEN c[1] ELSE IF axis = "y" THEN c[2] ELSE c[3]
        is_old(c) == (polarity = 1 /\ along(c) < divider)
                     \/ (polarity = -1 /\ along(c) >= divider)
        old_i(c) == IF polarity = 1 THEN along(c) ELSE along(c) - divider
        \* the old element whose orthogonal sizes a new element inherits
        face(c) == IF axis = "x" THEN m.els[At(m, 0, c[2], c[3])]
                   ELSE IF axis = "y" THEN m.els[At(m, c[1], 0, c[3])]
                   ELSE m.els[At(m, c[1], c[2], 0)]
        made(c) == IF axis = "x"
                   THEN NewElement(thickness_element, GetSize(face(c), "y"),
                                   GetSize(face(c), "z"), pr, T, P_el)
                   ELSE IF axis = "y"
                   THEN NewElement(GetSize(face(c), "x"), thickness_element,
                                   GetSize(face(c), "z"), pr, T, P_el)
                   ELSE NewElement(GetSize(face(c), "x"), GetSize(face(c), "y"),
                                   thickness_element, pr, T, P_el)
        total == x_new * y_new * z_new
        \* scan positions of the cells that get a new element, in creation order
        new_ks == {k \in 1..total : ~is_old(ScanCell(k, y_new, z_new))}
        rank(k) == Cardinality({j \in new_ks : j < k})
        kth_new(r) == CHOOSE k \in new_ks : rank(k) = r - 1
        fresh == [r \in 1..Cardinality(new_ks) |-> made(ScanCell(kth_new(r), y_new, z_new))]
        base == Len(m.els)
        ref(x, y, z) ==
            LET c == <<x, y, z>>
                k == x * y_new * z_new + y * z_new + z + 1
            IN  IF is_old(c)
                THEN (IF axis = "x" THEN At(m, old_i(c), y, z)
                      ELSE IF axis = "y" THEN At(m, x, old_i(c), z)
                      ELSE At(m, x, y, old_i(c)))
                ELSE base + rank(k) + 1
        list == [x \in 1..x_new |-> [y \in 1..y_new |-> [z \in 1..z_new |->
                    ref(x - 1, y - 1, z - 1)]]]
    IN  Returned(Mesh(SomeElements(list), m.els \o fresh, x_new, y_new, z_new))

\* Python's list[i]: is i a valid index of a list of length n, and which position
PyValid(i, n) == -n <= i /\ i < n
PyPos(i, n) == IF i < 0 THEN n + i ELSE i

\* ThermalModel.modify_volume on an existing mesh, extents >= 1
ModifyVolume(m, x_coord, y_coord, z_coord, x_ext, y_ext, z_ext, pr, T, P) ==
    LET total == x_ext * y_ext * z_ext
        P_el == ComputeElementWiseP(P, total)
        \* the k-th triple of "for x in indeces_x: for y ..: for z ..:"
        triple(k) == LET c == ScanCell(k, y_ext, z_ext)
                     IN  <<x_coord + c[1], y_coord + c[2], z_coord + c[3]>>
        valid(c) == /\ PyValid(c[1], m.x_el_qty_old)
                    /\ PyValid(c[2], m.y_el_qty_old)
                    /\ PyValid(c[3], m.z_el_qty_old)
        bad == {k \in 1..total : ~valid(triple(k))}
        \* the triples reached before the first IndexError
        done == {k \in 1..total : \A b \in bad : k < b}
        target(k) == LET c == triple(k)
                     IN  At(m, PyPos(c[1], m.x_el_qty_old), PyPos(c[2], m.y_el_qty_old),
                               PyPos(c[3], m.z_el_qty_old))
        touched == {target(k) : k \in done}
        h == [i \in 1..Len(m.els) |->
                IF i \in touched THEN ElementModify(m.els[i], pr, T, P_el) ELSE m.els[i]]
        after == [m EXCEPT !.els = h]
    IN  IF bad = {} THEN Returned(after) ELSE Raised(after, "IndexError")

\* the centered start index rounded up instead of down
CenteredCoordCeil(qty, ext) == (qty - ext + 1) \div 2

\* "math.floor((self.<axis>_el_qty_old - <axis>_ext)/2)"
CenteredCoord(qty, ext) == (qty - ext) \div 2

\* ThermalModel.modify_volume_centered_slice on an existing mesh, for an axis
\* in {"x", "y", "z"}, a polarity in {1, -1} and extents >= 1
ModifyVolumeCenteredSlice(m, axis, polarity, index_start_extrusion, x_ext, y_ext, z_ext, pr, T, P) ==
    LET qty == [x |-> m.x_el_qty_old, y |-> m.y_el_qty_old, z |-> m.z_el_qty_old]
        ext == [x |-> x_ext, y |-> y_ext, z |-> z_ext]
        \* "convert index to positive, if negative value was input"
        start == IF index_start_extrusion < 0
                 THEN qty[axis] + index_start_extrusion
                 ELSE index_start_extrusion
        max_index_modified_slice_thickness == start + ext[axis] - 1
        min_index_modified_slice_thickness == start - ext[axis] + 1
        others == {"x", "y", "z"} \ {axis}
        coord(b) == IF b # axis THEN CenteredCoord(qty[b], ext[b])
                    ELSE IF polarity = 1 THEN start
                    ELSE min_index_modified_slice_thickness
    IN  IF start > qty[axis] - 1 THEN Raised(m, "ValueError")
        ELSE IF polarity = 1 /\ max_index_modified_slice_thickness > qty[axis] - 1
        THEN Raised(m, "ValueError")
        ELSE IF polarity = -1 /\ min_index_modified_slice_thickness > qty[axis] - 1
        THEN Raised(m, "ValueError")
        ELSE IF \E b \in others : ext[b] > qty[b] THEN Raised(m, "ValueError")
        ELSE ModifyVolume(m, coord("x"), coord("y"), coord("z"),
                          x_ext, y_ext, z_ext, pr, T, P)

(***************************************************************************)
(* Link generation and layout                                              *)
(***************************************************************************)
RECURSIVE RSum(_)
RSum(q) == IF q = <<>> THEN R(0) ELSE RAdd(q[1], RSum(Tail(q)))

\* generate_nodes: the test that decides whether a node is created; nx_type is
\* the type of whatever the local neighbor_x refers to at that moment
NodeCondition(el_type, nb_type, nx_type) ==
    nb_type # "null" \/ (el_type = "reservoir" /\ nx_type # "reservoir")

\* the test needs neighbor_x: `or` and `and` are evaluated left to right
NodeConditionReadsNeighborX(el_type, nb_type) ==
    nb_type = "null" /\ el_type = "reservoir"

\* the members of a set of numbers in increasing order
Sorted(S) == [r \in 1..Cardinality(S) |->
                CHOOSE k \in S : Cardinality({j \in S : j < k}) = r - 1]

\* The scan of generate_nodes.  Its neighbor checks are numbered in the order
\* the scan reaches them: check 3(c-1)+1, +2, +3 is the x+, y+, z+ check of the
\* c-th cell.  What the scan has done when it stops: the heap with the neighbor
\* lists, the node list, and the exception raised ("" for none).
NodeScan(m, nodes0) ==
    LET qx == m.x_el_qty_old
        qy == m.y_el_qty_old
        qz == m.z_el_qty_old
        h == m.els
        cell(k) == ScanCell((k - 1) \div 3 + 1, qy, qz)
        dir(k) == IF (k - 1) % 3 = 0 THEN "x" ELSE IF (k - 1) % 3 = 1 THEN "y" ELSE "z"
        el(k) == At(m, cell(k)[1], cell(k)[2], cell(k)[3])
        \* the check is reached: the element is not null and the index is in range
        reached(k) ==
            /\ h[el(k)].eltype # "null"
            /\ IF dir(k) = "x" THEN cell(k)[1] + 1 < qx
               ELSE IF dir(k) = "y" THEN cell(k)[2] + 1 < qy
               ELSE cell(k)[3] + 1 < qz
        nb(k) == IF dir(k) = "x" THEN At(m, cell(k)[1] + 1, cell(k)[2], cell(k)[3])
                 ELSE IF dir(k) = "y" THEN At(m, cell(k)[1], cell(k)[2] + 1, cell(k)[3])
                 ELSE At(m, cell(k)[1], cell(k)[2], cell(k)[3] + 1)
        \* the local neighbor_x at check k: assigned by the last x+ check reached
        \* so far, 0 while it is unbound
        assigned(k) == {j \in 1..k : dir(j) = "x" /\ reached(j)}
        neighbor_x(k) ==
            IF assigned(k) = {} THEN 0
            ELSE nb(CHOOSE j \in assigned(k) : \A i \in assigned(k) : i <= j)
        nx_type(k) == IF neighbor_x(k) = 0 THEN "unbound" ELSE h[neighbor_x(k)].eltype
        raises(k) ==
            /\ reached(k)
            /\ NodeConditionReadsNeighborX(h[el(k)].eltype, h[nb(k)].eltype)
            /\ neighbor_x(k) = 0
        all == 1..(3 * qx * qy * qz)
        run == {k \in all : \A j \in 1..k : ~raises(j)}
        linked == Sorted({k \in run : /\ reached(k)
                                      /\ NodeCondition(h[el(k)].eltype, h[nb(k)].eltype,
                                                       nx_type(k))})
        \* element.neighbors.append(neighbor); neighbor.neighbors.append(element)
        appended(i) ==
            LET mine == {r \in 1..Len(linked) : el(linked[r]) = i \/ nb(linked[r]) = i}
                ord == Sorted(mine)
            IN  [r \in 1..Len(ord) |->
                    IF el(linked[ord[r]]) = i THEN nb(linked[ord[r]]) ELSE el(linked[ord[r]])]
    IN  [els |-> [i \in 1..Len(h) |-> [h[i] EXCEPT !.neighbors = @ \o appended(i)]],
         nodes |-> nodes0 \o [r \in 1..Len(linked) |->
                                NewNode(h, el(linked[r]), nb(linked[r]), dir(linked[r]))],
         raised |-> IF run = all THEN "" ELSE "UnboundLocalError"]

\* establish_corner_coordinates on a mesh with elements on every axis:
\* the heap with the corners assigned, and (x_vol_max, y_vol_max, z_vol_max)
EstablishCornerCoordinates(m, h) ==
    LET qx == m.x_el_qty_old
        qy == m.y_el_qty_old
        qz == m.z_el_qty_old
        xs(n, y, z) == RSum([i \in 1..n |-> h[At(m, i - 1, y, z)].x])
        ys(n, z) == RSum([i \in 1..n |-> h[At(m, qx - 1, i - 1, z)].y])
        zs(n) == RSum([i \in 1..n |-> h[At(m, qx - 1, qy - 1, i - 1)].z])
        where(i) == CHOOSE c \in (0..(qx - 1)) \X (0..(qy - 1)) \X (0..(qz - 1)) :
                        At(m, c[1], c[2], c[3]) = i
        in_mesh(i) == \E x \in 0..(qx - 1), y \in 0..(qy - 1), z \in 0..(qz - 1) :
                        At(m, x, y, z) = i
    IN  [els |-> [i \in 1..Len(h) |->
                    IF in_mesh(i)
                    THEN LET c == where(i)
                         IN  [h[i] EXCEPT !.corner = <<xs(c[1], c[2], c[3]),
                                                       ys(c[2], c[3]), zs(c[3])>>]
                    ELSE h[i]],
         vol_max |-> <<xs(qx, qy - 1, qz - 1), ys(qy, qz - 1), zs(qz)>>]

\* ThermalModel.generate_nodes: the heap, the node list, the volume extent and
\* the exception raised ("" for none)
GenerateNodes(m, nodes0, vol_max0) ==
    LET acc == NodeScan(m, nodes0)
    IN  IF acc.raised # ""
        THEN [els |-> acc.els, nodes |-> acc.nodes, vol_max |-> vol_max0,
              raised |-> acc.raised]
        ELSE LET lay == EstablishCornerCoordinates(m, acc.els)
             IN  [els |-> lay.els, nodes |-> acc.nodes, vol_max |-> lay.vol_max,
                  raised |-> ""]

(***************************************************************************)
(* Observation registry and aggregation                                    *)
(***************************************************************************)
\* the references of the elements whose label is the given one, in the order
\* of "for x .. for y .. for z" (observe_these_labels_*, converge_this_label_T)
ElementsWithLabel(m, label) ==
    LET total == m.x_el_qty_old * m.y_el_qty_old * m.z_el_qty_old
        ref(k) == LET c == ScanCell(k, m.y_el_qty_old, m.z_el_qty_old)
                  IN  At(m, c[1], c[2], c[3])
        hit == Sorted({k \in 1..total : m.els[ref(k)].label = label})
    IN  [r \in 1..Len(hit) |-> ref(hit[r])]

\* the four kinds of registration call, named by the aggregation
Kinds == {"T_avg", "T_max", "P", "converge"}

\* observe_these_labels_T_avg, _T_max and _P, which differ only in the two
\* attributes they read and write: labels and elements are those attributes
ObserveTheseLabels(m, labels, elems, list_of_labels) ==
    IF Len(labels) = 0
    THEN [labels |-> list_of_labels,
          elements |-> elems \o [g \in 1..Len(list_of_labels) |->
                                    ElementsWithLabel(m, list_of_labels[g].label)],
          raised |-> ""]
    ELSE [labels |-> labels, elements |-> elems, raised |-> "ValueError"]

\* ThermalModel.converge_this_label_T
ConvergeThisLabelT(m, label, elems, my_label) ==
    IF label = "None"
    THEN [label |-> my_label.label,
          elements |-> elems \o ElementsWithLabel(m, my_label.label),
          raised |-> ""]
    ELSE [label |-> label, elements |-> elems, raised |-> "ValueError"]

\* ThermalModel.observe_T_avg on a non-empty group (an empty one divides by 0)
ObserveTAvg(h, elements_observed) ==
    RDiv(RSum([r \in 1..Len(elements_observed) |-> h[elements_observed[r]].T]),
         R(Len(elements_observed)))

\* ThermalModel.observe_T_max: T_max starts at 0
RECURSIVE ObserveTMaxFrom(_, _, _)
ObserveTMaxFrom(h, elements_observed, T_max) ==
    IF elements_observed = <<>> THEN T_max
    ELSE ObserveTMaxFrom(h, Tail(elements_observed),
                         IF RLt(T_max, h[Head(elements_observed)].T)
                         THEN h[Head(elements_observed)].T ELSE T_max)

ObserveTMax(h, elements_observed) == ObserveTMaxFrom(h, elements_observed, R(0))

\* ThermalModel.observe_P
ObserveP(h, elements_observed) ==
    RSum([r \in 1..Len(elements_observed) |-> h[elements_observed[r]].P])

\* round(a, 3): to the nearest thousandth, a tie to the even one
Round3(a) ==
    LET g == Common(1000, a[2])
        d == a[2] \div g
        n == (a[1] % a[2]) * (1000 \div g)
        q == (a[1] \div a[2]) * 1000 + (n \div d)
        r == n % d
        up == 2 * r > d \/ (2 * r = d /\ q % 2 = 1)
    IN  Norm(IF up THEN q + 1 ELSE q, 1000)

(***************************************************************************)
(* solve(): the pre-pass and the pieces of the loop                        *)
(***************************************************************************)
IsPowered(e) == (e.P # R(0) /\ e.P_is_constant) \/ e.P_is_constant = FALSE
IsCoENotNull(e) == e.eltype # "null"
IsCoEUnprescribed(e) == e.eltype \notin {"null", "reservoir"} /\ ~e.T_is_prescribed
IsCoE(e) == e.eltype \notin {"null", "reservoir"}
IsPrescribed(e) == e.T_is_prescribed

\* the elements the pre-pass of solve() appends to the list named by list
PrePass(m, list) ==
    LET total == m.x_el_qty_old * m.y_el_qty_old * m.z_el_qty_old
        ref(k) == LET c == ScanCell(k, m.y_el_qty_old, m.z_el_qty_old)
                  IN  At(m, c[1], c[2], c[3])
        Wanted(e) == CASE list = "elements_to_power" -> IsPowered(e)
                       [] list = "elements_to_CoE" -> IsCoE(e)
                       [] list = "elements_to_prescribe_T" -> IsPrescribed(e)
        hit == Sorted({k \in 1..total : Wanted(m.els[ref(k)])})
    IN  [r \in 1..Len(hit) |-> ref(hit[r])]

\* the row solve() appends: time, then the rounded aggregates of the groups
RowData(h, t_cur, groups_T_avg, groups_T_max, groups_P) ==
    <<t_cur>>
    \o [g \in 1..Len(groups_T_avg) |-> Round3(ObserveTAvg(h, groups_T_avg[g]))]
    \o [g \in 1..Len(groups_T_max) |-> Round3(ObserveTMax(h, groups_T_max[g]))]
    \o [g \in 1..Len(groups_P) |-> Round3(ObserveP(h, groups_P[g]))]

(***************************************************************************)
(* Inputs of the composition calls                                         *)
(***************************************************************************)
Mm(n) == <<n, 1000>>

\* material descriptors {label, ref, eltype, k, cp, rho}
null == [label |-> "null", ref |-> ".", eltype |-> "null",
         k |-> R(1), cp |-> R(1), rho |-> R(1)]
reservoir == [label |-> "infinite heatsink", ref |-> "~", eltype |-> "reservoir",
              k |-> R(1), cp |-> R(1), rho |-> R(1)]
cube == [label |-> "cube", ref |-> "c", eltype |-> "solid",
         k |-> R(1), cp |-> R(1), rho |-> R(1000)]
resistor == [label |-> "resistor", ref |-> "r", eltype |-> "solid",
             k |-> R(1), cp |-> R(1), rho |-> R(2000)]

\* properties, T and P of one composition call
Fill(pr, T, P) == [pr |-> pr, T |-> T, P |-> P]
Fills == {Fill(null, Num(R(0)), Num(R(0))),
          Fill(cube, Num(R(100)), Num(R(6))),
          Fill(reservoir, Fn("ramp"), Fn("step"))}

\* the volume and element sizes of create_volume, per axis, in mm
FirstSizes == {<<3, 2>>, <<2, 1>>}
\* create_volume on an existing mesh raises before it reads its arguments:
\* one argument list stands for all
AnyFirst(xs, ys, zs, f) ==
    xs = <<2, 1>> /\ ys = <<2, 1>> /\ zs = <<1, 1>> /\ f = Fill(null, Num(R(0)), Num(R(0)))

ThisMesh == Mesh(elements, els, x_el_qty_old, y_el_qty_old, z_el_qty_old)

SetMesh(m) ==
    /\ elements' = m.elements
    /\ els' = m.els
    /\ x_el_qty_old' = m.x_el_qty_old
    /\ y_el_qty_old' = m.y_el_qty_old
    /\ z_el_qty_old' = m.z_el_qty_old

\* composition calls made so far
Ops == call.ops

(***************************************************************************)
(* The state after ThermalModel()                                          *)
(***************************************************************************)
NoFrame == [dt |-> RNone, dt_sampling |-> RNone, t_max |-> RNone,
            dT_dt_converge |-> RNone, iteration |-> 0,
            iteration_interval_to_sample |-> 0, t_cur |-> RNone,
            T_to_converge_prev |-> RNone, T_to_converge_cur |-> RNone,
            dT_dt_cur |-> RNone, i |-> 0, exit |-> "", solves |-> 0]

Init ==
    /\ elements = NoElements
    /\ els = <<>>
    /\ x_el_qty_old = 0
    /\ y_el_qty_old = 0
    /\ z_el_qty_old = 0
    /\ vol_max = <<RNone, RNone, RNone>>
    /\ nodes = <<>>
    /\ labels_to_observe_T_avg = <<>>
    /\ elements_to_observe_T_avg = <<>>
    /\ labels_to_observe_T_max = <<>>
    /\ elements_to_observe_T_max = <<>>
    /\ labels_to_observe_P = <<>>
    /\ elements_to_observe_P = <<>>
    /\ label_to_converge = "None"
    /\ elements_to_converge = <<>>
    /\ registered = {}
    /\ elements_to_power = <<>>
    /\ elements_to_CoE = <<>>
    /\ elements_to_prescribe_T = <<>>
    /\ df = <<>>
    /\ frame = NoFrame
    /\ hist = [solve |-> <<>>, step |-> <<>>, peak |-> RNone]
    /\ pc = "compose"
    /\ call = [name |-> "ThermalModel", args |-> <<>>, raised |-> "", ops |-> 0]

(***************************************************************************)
(* The composition calls of the driver                                     *)
(***************************************************************************)
create_volume ==
    \E xs \in FirstSizes, ys \in FirstSizes, zs \in {<<1, 1>>}, f \in Fills :
        /\ pc = "compose"
        /\ Ops < MaxOps
        /\ elements.none \/ AnyFirst(xs, ys, zs, f)
        /\ \E r \in {CreateVolume(ThisMesh, Mm(xs[1]), Mm(ys[1]), Mm(zs[1]),
                          Mm(xs[2]), Mm(ys[2]), Mm(zs[2]), f.pr, f.T, f.P)} :
            /\ SetMesh(r.m)
            /\ call' = [name |-> "create_volume",
                        args |-> [x_vol |-> Mm(xs[1]), y_vol |-> Mm(ys[1]),
                                  z_vol |-> Mm(zs[1]), x_el |-> Mm(xs[2]),
                                  y_el |-> Mm(ys[2]), z_el |-> Mm(zs[2]),
                                  properties |-> f.pr, T |-> f.T, P |-> f.P],
                        raised |-> r.raised,
                        ops |-> IF elements.none THEN 0 ELSE Ops + 1]
            /\ UNCHANGED <<vol_max, nodes, observeVars, solveVars, pc>>

extend_volume ==
    \E axis \in {"x", "y", "z"}, polarity \in {1, -1},
       st \in {<<3, 2>>, <<2, 1>>}, f \in Fills :
        /\ pc = "compose"
        /\ ~elements.none
        /\ Ops < MaxOps
        /\ \E r \in {ExtendVolume(ThisMesh, axis, polarity, Mm(st[1]), Mm(st[2]),
                          f.pr, f.T, f.P)} :
            /\ r.m.x_el_qty_old * r.m.y_el_qty_old * r.m.z_el_qty_old <= MaxCells
            /\ SetMesh(r.m)
            /\ call' = [name |-> "extend_volume",
                        args |-> [axis |-> axis, polarity |-> polarity,
                                  size_extrusion |-> Mm(st[1]),
                                  thickness_element |-> Mm(st[2]),
                                  properties |-> f.pr, T |-> f.T, P |-> f.P],
                        raised |-> r.raised, ops |-> Ops + 1]
            /\ UNCHANGED <<vol_max, nodes, observeVars, solveVars, pc>>

modify_volume ==
    \E x_coord \in {-1, 0, 1}, y_coord \in {0}, z_coord \in {0},
       x_ext \in {1, 2}, y_ext \in {1, 2}, z_ext \in {1}, f \in Fills :
        /\ pc = "compose"
        /\ ~elements.none
        /\ Ops < MaxOps
        /\ \E r \in {ModifyVolume(ThisMesh, x_coord, y_coord, z_coord,
                          x_ext, y_ext, z_ext, f.pr, f.T, f.P)} :
            /\ SetMesh(r.m)
            /\ call' = [name |-> "modify_volume",
                        args |-> [x_coord |-> x_coord, y_coord |-> y_coord,
                                  z_coord |-> z_coord, x_ext |-> x_ext,
                                  y_ext |-> y_ext, z_ext |-> z_ext,
                                  properties |-> f.pr, T |-> f.T, P |-> f.P],
                        raised |-> r.raised, ops |-> Ops + 1]
            /\ UNCHANGED <<vol_max, nodes, observeVars, solveVars, pc>>

generate_nodes ==
    /\ pc = "compose"
    /\ ~elements.none
    /\ \E r \in {GenerateNodes(ThisMesh, nodes, vol_max)} :
        /\ els' = r.els
        /\ nodes' = r.nodes
        /\ vol_max' = r.vol_max
        /\ pc' = "linked"
        /\ call' = [name |-> "generate_nodes", args |-> <<>>, raised |-> r.raised,
                    ops |-> Ops]
        /\ UNCHANGED <<elements, x_el_qty_old, y_el_qty_old, z_el_qty_old,
                       observeVars, solveVars>>

Next ==
    \/ create_volume
    \/ extend_volume
    \/ modify_volume
    \/ generate_nodes

Spec == Init /\ [][Next]_vars

(***************************************************************************)
(* Properties of link generation                                           *)
(***************************************************************************)
Linked == pc = "linked" /\ call.name = "generate_nodes"

\* the index triples of the envelope
Envelope(qx, qy, qz) == (0..(qx - 1)) \X (0..(qy - 1)) \X (0..(qz - 1))
Cells == Envelope(x_el_qty_old, y_el_qty_old, z_el_qty_old)
Ref(c) == elements.list[c[1] + 1][c[2] + 1][c[3] + 1]

\* two cells that share a face
FaceAdjacent(c, d) ==
    Abs(c[1] - d[1]) + Abs(c[2] - d[2]) + Abs(c[3] - d[3]) = 1

\* C5: after generate_links() no link has both endpoints of type reservoir
C5_NoReservoirPairLinked ==
    Linked => \A n \in 1..Len(nodes) :
                ~(/\ els[nodes[n].el1].eltype = "reservoir"
                  /\ els[nodes[n].el2].eltype = "reservoir")

\* C6: after generate_links() no link has a null volume as an endpoint, and
\* generate_links() completes without error on every composed lattice
C6_NoNullLinkedNoError ==
    Linked => /\ call.raised = ""
              /\ \A n \in 1..Len(nodes) :
                    /\ els[nodes[n].el1].eltype # "null"
                    /\ els[nodes[n].el2].eltype # "null"

(***************************************************************************)
(* Properties of extend_volume                                             *)
(***************************************************************************)
\* the step is a completed extend_volume call with this polarity
Extended(polarity) ==
    /\ call'.name = "extend_volume"
    /\ call'.raised = ""
    /\ call'.args.polarity = polarity

\* floor(extrusion_size / element_thickness): the n with n*t <= s < (n+1)*t
FloorRatio(s, t) ==
    CHOOSE n \in 0..(MaxCells + 1) : RLe(RMul(R(n), t), s) /\ RLt(s, RMul(R(n + 1), t))

AddedBy(c) == FloorRatio(c.args.size_extrusion, c.args.thickness_element)

\* the cell c moved by n along the axis
Shifted(c, axis, n) ==
    IF axis = "x" THEN <<c[1] + n, c[2], c[3]>>
    ELSE IF axis = "y" THEN <<c[1], c[2] + n, c[3]>>
    ELSE <<c[1], c[2], c[3] + n>>

Along(c, axis) == IF axis = "x" THEN c[1] ELSE IF axis = "y" THEN c[2] ELSE c[3]

QtyOld(axis) == IF axis = "x" THEN x_el_qty_old
                ELSE IF axis = "y" THEN y_el_qty_old ELSE z_el_qty_old

\* the envelope after the step has n more elements along the axis, and the
\* other two counts are unchanged
Grown(axis, n) ==
    /\ x_el_qty_old' = x_el_qty_old + (IF axis = "x" THEN n ELSE 0)
    /\ y_el_qty_old' = y_el_qty_old + (IF axis = "y" THEN n ELSE 0)
    /\ z_el_qty_old' = z_el_qty_old + (IF axis = "z" THEN n ELSE 0)
    /\ Len(elements'.list) = x_el_qty_old'
    /\ \A x \in 1..x_el_qty_old' :
        /\ Len(elements'.list[x]) = y_el_qty_old'
        /\ \A y \in 1..y_el_qty_old' : Len(elements'.list[x][y]) = z_el_qty_old'

RefAfter(c) == elements'.list[c[1] + 1][c[2] + 1][c[3] + 1]
CellsAfter == Envelope(x_el_qty_old', y_el_qty_old', z_el_qty_old')

\* the old volume of cell c is, after the step, the volume of cell d, the
\* same object in the same state
CarriedOver(c, d) ==
    /\ RefAfter(d) = Ref(c)
    /\ els'[Ref(c)] = els[Ref(c)]

\* the volume of cell d after the step is an object made by the step
MadeByStep(d) == RefAfter(d) > Len(els) /\ RefAfter(d) <= Len(els')

\* C7: extend_volume with polarity -1 prepends: the n new volumes occupy the
\* indices 0..n-1 and the old volume of index i is at index i+n, the same
\* object with unchanged state
C7_PrependShiftsOldVolumes ==
    [][Extended(-1) =>
        LET axis == call'.args.axis
            n == AddedBy(call')
        IN  /\ Grown(axis, n)
            /\ \A c \in Cells : CarriedOver(c, Shifted(c, axis, n))
            /\ \A d \in CellsAfter : Along(d, axis) < n => MadeByStep(d)]_vars

\* C8: extend_volume with polarity +1 appends: every old volume keeps its
\* index, identity and state, the n new volumes occupy old_count..old_count+n-1,
\* the count of the axis grows by n = floor(extrusion_size/element_thickness)
\* and the other two counts are unchanged
C8_AppendKeepsOldVolumes ==
    [][Extended(1) =>
        LET axis == call'.args.axis
            n == AddedBy(call')
        IN  /\ Grown(axis, n)
            /\ \A c \in Cells : CarriedOver(c, c)
            /\ \A i \in 1..Len(els) : els'[i] = els[i]
            /\ \A d \in CellsAfter : Along(d, axis) >= QtyOld(axis) => MadeByStep(d)
            /\ \A d, e \in CellsAfter : d # e => RefAfter(d) # RefAfter(e)]_vars

\* an appended slab of floor(3/2) = 1 element on a 2 x 1 x 1 lattice
C8_Witness ==
    /\ call.name = "extend_volume"
    /\ call.raised = ""
    /\ call.args.polarity = 1
    /\ call.args.axis = "z"
    /\ call.args.size_extrusion = Mm(3)
    /\ call.args.thickness_element = Mm(2)
    /\ z_el_qty_old = 2
    /\ x_el_qty_old = 2
    /\ y_el_qty_old = 1

\* the source of the volume e is the power argument P divided by m
SourceIs(e, P, m) ==
    IF P.num
    THEN e.P_is_constant /\ e.P = RDiv(P.v, R(m))
    ELSE ~e.P_is_constant /\ e.P_of_t = [f |-> P.f, div |-> m]

\* C9: each new volume of an extend_volume call with power P gets the source
\* P/m, m the number of volumes of the new slab only
C9_SlabPowerDividedOverSlab ==
    [][(call'.name = "extend_volume" /\ call'.raised = "") =>
        LET axis == call'.args.axis
            n == AddedBy(call')
            m == IF axis = "x" THEN n * y_el_qty_old * z_el_qty_old
                 ELSE IF axis = "y" THEN x_el_qty_old * n * z_el_qty_old
                 ELSE x_el_qty_old * y_el_qty_old * n
        IN  \A i \in (Len(els) + 1)..Len(els') : SourceIs(els'[i], call'.args.P, m)]_vars

(***************************************************************************)
(* Properties of create_volume and modify_volume                           *)
(***************************************************************************)
\* the source of a volume: constant or time function, and its value
Source(e) == <<e.P_is_constant, e.P, e.P_of_t>>

\* the cells of the index box of a modify_volume call
InBox(c, a) ==
    /\ a.x_coord <= c[1] /\ c[1] < a.x_coord + a.x_ext
    /\ a.y_coord <= c[2] /\ c[2] < a.y_coord + a.y_ext
    /\ a.z_coord <= c[3] /\ c[3] < a.z_coord + a.z_ext

\* the constant sources of the volumes of the refs in S sum to P
RECURSIVE SumP(_, _)
SumP(h, S) ==
    IF S = {} THEN R(0)
    ELSE LET i == CHOOSE i \in S : TRUE IN RAdd(h[i].P, SumP(h, S \ {i}))

\* C10: create_volume gives every volume it creates the source P/N, N the number
\* of volumes created; modify_volume gives every volume of its box the source
\* P/B, B = ext_x*ext_y*ext_z, the touched volumes' sources sum to P and the
\* volumes outside the box keep their source
C10_PowerDividedOverCall ==
    [][/\ (call'.name = "create_volume" /\ call'.raised = "") =>
            \A i \in 1..Len(els') :
                SourceIs(els'[i], call'.args.P, Len(els'))
       /\ (call'.name = "modify_volume" /\ call'.raised = "") =>
            LET a == call'.args
                B == a.x_ext * a.y_ext * a.z_ext
                touched == {i \in 1..Len(els) : els'[i] # els[i]}
            IN  /\ \A c \in Cells : InBox(c, a) => SourceIs(els'[Ref(c)], a.P, B)
                /\ \A c \in Cells : ~InBox(c, a) => Source(els'[Ref(c)]) = Source(els[Ref(c)])
                /\ (a.P.num /\ touched # {}) => SumP(els', touched) = a.P.v]_vars

\* the index box of a modify_volume call leaves the envelope on some axis
BoxOutside(a) ==
    \/ a.x_coord < 0 \/ a.x_coord + a.x_ext > x_el_qty_old
    \/ a.y_coord < 0 \/ a.y_coord + a.y_ext > y_el_qty_old
    \/ a.z_coord < 0 \/ a.z_coord + a.z_ext > z_el_qty_old

\* C11: modify_volume fails with an error whenever an index of the requested
\* box lies outside the envelope 0..count-1 on some axis, a negative start
\* index included, and then it modifies no volume
C11_ModifyOutsideEnvelopeFails ==
    [][(call'.name = "modify_volume" /\ call'.ops # call.ops /\ BoxOutside(call'.args)) =>
            (call'.raised # "" /\ els' = els)]_vars

\* C14: create_volume creates on each axis exactly floor(volume_size /
\* element_size) volumes, a non-integer ratio floored and not rounded, records
\* the three counts as the envelope, and fills every cell of the count_x by
\* count_y by count_z array with a volume of its own
C14_CreateFloorsTheCounts ==
    [][(call'.name = "create_volume" /\ call'.raised = "" /\ elements.none) =>
            LET a == call'.args
                nx == FloorRatio(a.x_vol, a.x_el)
                ny == FloorRatio(a.y_vol, a.y_el)
                nz == FloorRatio(a.z_vol, a.z_el)
                list == elements'.list
                cells == Envelope(nx, ny, nz)
                ref(c) == list[c[1] + 1][c[2] + 1][c[3] + 1]
            IN  /\ ~elements'.none
                /\ x_el_qty_old' = nx /\ y_el_qty_old' = ny /\ z_el_qty_old' = nz
                /\ Len(list) = nx
                /\ \A x \in 1..nx :
                    /\ Len(list[x]) = ny
                    /\ \A y \in 1..ny : Len(list[x][y]) = nz
                /\ \A c \in cells : ref(c) \in 1..Len(els')
                /\ \A c, d \in cells : c # d => ref(c) # ref(d)
                /\ Len(els') = nx * ny * nz]_vars

\* a lattice of floor(3/2) = 1 by floor(2/1) = 2 by 1 volumes has been created
C14_Witness ==
    /\ call.name = "create_volume"
    /\ call.raised = ""
    /\ call.args.x_vol = Mm(3) /\ call.args.x_el = Mm(2)
    /\ call.args.y_vol = Mm(2) /\ call.args.y_el = Mm(1)
    /\ x_el_qty_old = 1 /\ y_el_qty_old = 2 /\ z_el_qty_old = 1
    /\ Len(els) = 2

(***************************************************************************)
(* Centered slices, cut from a lattice create_volume has made of 1 mm      *)
(* cubes                                                                   *)
(***************************************************************************)
\* the element counts on x and y of the lattices that are sliced
SliceShapes == (1..3) \X (1..2)

InitSlice ==
    \E shape \in SliceShapes :
        \E r \in {CreateVolume(Mesh(NoElements, <<>>, 0, 0, 0),
                               Mm(shape[1]), Mm(shape[2]), Mm(1), Mm(1), Mm(1), Mm(1),
                               cube, Num(R(100)), Num(R(6)))} :
            /\ elements = r.m.elements
            /\ els = r.m.els
            /\ x_el_qty_old = r.m.x_el_qty_old
            /\ y_el_qty_old = r.m.y_el_qty_old
            /\ z_el_qty_old = r.m.z_el_qty_old
            /\ vol_max = <<RNone, RNone, RNone>>
            /\ nodes = <<>>
            /\ labels_to_observe_T_avg = <<>>
            /\ elements_to_observe_T_avg = <<>>
            /\ labels_to_observe_T_max = <<>>
            /\ elements_to_observe_T_max = <<>>
            /\ labels_to_observe_P = <<>>
            /\ elements_to_observe_P = <<>>
            /\ label_to_converge = "None"
            /\ elements_to_converge = <<>>
            /\ registered = {}
            /\ elements_to_power = <<>>
            /\ elements_to_CoE = <<>>
            /\ elements_to_prescribe_T = <<>>
            /\ df = <<>>
            /\ frame = NoFrame
            /\ hist = [solve |-> <<>>, step |-> <<>>, peak |-> RNone]
            /\ pc = "compose"
            /\ call = [name |-> "create_volume", args |-> <<>>, raised |-> "", ops |-> 0]

modify_volume_centered_slice ==
    \E axis \in {"x", "y", "z"}, polarity \in {1, -1},
       index_start_extrusion \in {-3, -1, 0, 1},
       x_ext \in {1, 2}, y_ext \in {1, 2}, z_ext \in {1},
       f \in {Fill(resistor, Num(R(0)), Num(R(6)))} :
        /\ pc = "compose"
        /\ ~elements.none
        /\ Ops < MaxOps
        /\ \E r \in {ModifyVolumeCenteredSlice(ThisMesh, axis, polarity,
                          index_start_extrusion, x_ext, y_ext, z_ext,
                          f.pr, f.T, f.P)} :
            /\ SetMesh(r.m)
            /\ call' = [name |-> "modify_volume_centered_slice",
                        args |-> [axis |-> axis, polarity |-> polarity,
                                  index_start_extrusion |-> index_start_extrusion,
                                  x_ext |-> x_ext, y_ext |-> y_ext, z_ext |-> z_ext,
                                  properties |-> f.pr, T |-> f.T, P |-> f.P],
                        raised |-> r.raised, ops |-> Ops + 1]
            /\ UNCHANGED <<vol_max, nodes, observeVars, solveVars, pc>>

NextSlice == modify_volume_centered_slice

SpecSlice == InitSlice /\ [][NextSlice]_vars

(***************************************************************************)
(* Properties of modify_volume_centered_slice                              *)
(***************************************************************************)
\* the element count and the extent of a call along an axis
Qty(b) == CASE b = "x" -> x_el_qty_old [] b = "y" -> y_el_qty_old [] b = "z" -> z_el_qty_old
Ext(a, b) == CASE b = "x" -> a.x_ext [] b = "y" -> a.y_ext [] b = "z" -> a.z_ext

\* the start index of a call, a negative one counted from the far end
SliceStart(a) ==
    IF a.index_start_extrusion < 0
    THEN Qty(a.axis) + a.index_start_extrusion
    ELSE a.index_start_extrusion

\* the first and the last index of the box of a call along the axis b
SliceLow(a, b) ==
    IF b # a.axis THEN (Qty(b) - Ext(a, b)) \div 2
    ELSE IF a.polarity = 1 THEN SliceStart(a)
    ELSE SliceStart(a) - Ext(a, b) + 1
SliceHigh(a, b) == SliceLow(a, b) + Ext(a, b) - 1

\* the box of a call lies inside the envelope on every axis
SliceInside(a) ==
    \A b \in {"x", "y", "z"} : 0 <= SliceLow(a, b) /\ SliceHigh(a, b) <= Qty(b) - 1

InSlice(c, a) ==
    /\ SliceLow(a, "x") <= c[1] /\ c[1] <= SliceHigh(a, "x")
    /\ SliceLow(a, "y") <= c[2] /\ c[2] <= SliceHigh(a, "y")
    /\ SliceLow(a, "z") <= c[3] /\ c[3] <= SliceHigh(a, "z")

SliceCall == call'.name = "modify_volume_centered_slice" /\ call'.ops # call.ops

\* C12: modify_volume_centered_slice fails with an error, for both polarities
\* and for positive and negative start_index, whenever the start or the end
\* index of the computed box lies outside 0..count-1 on some axis, and then
\* it modifies no volume
C12_SliceOutsideEnvelopeFails ==
    [][(SliceCall /\ ~SliceInside(call'.args)) =>
            (call'.raised # "" /\ els' = els)]_vars

\* C13: a valid call modifies exactly the volumes of this box: on the two
\* orthogonal axes the indices s..s+ext-1 with s = floor((count - ext)/2), on
\* the chosen axis start..start+ext-1 for polarity +1 and start-ext+1..start
\* for polarity -1, a negative start_index first replaced by count+start_index
C13_SliceModifiesCenteredBox ==
    [][(SliceCall /\ SliceInside(call'.args)) =>
            LET a == call'.args
                P_el == ComputeElementWiseP(a.P, a.x_ext * a.y_ext * a.z_ext)
            IN  /\ call'.raised = ""
                /\ \A c \in Cells :
                    els'[Ref(c)] = IF InSlice(c, a)
                                   THEN ElementModify(els[Ref(c)], a.properties, a.T, P_el)
                                   ELSE els[Ref(c)]]_vars

\* a slice of y thickness 2 cut back from the far end of y (start_index -1,
\* polarity -1), centered on an x axis of 3 elements with extent 2: floor(1/2) = 0
C13_Witness ==
    /\ call.name = "modify_volume_centered_slice"
    /\ call.raised = ""
    /\ call.args.axis = "y" /\ call.args.polarity = -1
    /\ call.args.index_start_extrusion = -1
    /\ call.args.x_ext = 2 /\ call.args.y_ext = 2
    /\ x_el_qty_old = 3 /\ y_el_qty_old = 2
    /\ els[Ref(<<0, 0, 0>>)].label = "resistor"
    /\ els[Ref(<<1, 1, 0>>)].label = "resistor"
    /\ els[Ref(<<2, 0, 0>>)].label = "cube"

(***************************************************************************)
(* Registration, on a model a driver script has composed and linked:       *)
(* create_volume of 1 mm cubes, modify_volume of the first cell,           *)
(* generate_nodes.                                                         *)
(***************************************************************************)
\* the lists of labels a registration call is given
LabelLists == {<<>>, <<cube>>, <<resistor, cube>>}

\* the element counts on x and y of the composed lattices
ObserveShapes == {<<2, 1>>, <<3, 1>>, <<2, 2>>}

InitObserve ==
    \E shape \in ObserveShapes,
       f2 \in {Fill(resistor, Num(R(0)), Num(<<1, 125>>)), Fill(null, Num(R(0)), Num(R(0)))} :
        \E m \in {ModifyVolume(
                        CreateVolume(Mesh(NoElements, <<>>, 0, 0, 0),
                                     Mm(shape[1]), Mm(shape[2]), Mm(1), Mm(1), Mm(1), Mm(1),
                                     cube, Num(R(64)), Num(R(0))).m,
                        0, 0, 0, 1, 1, 1, f2.pr, f2.T, f2.P).m} :
            \E g \in {GenerateNodes(m, <<>>, <<RNone, RNone, RNone>>)} :
                /\ g.raised = ""
                /\ elements = m.elements
                /\ els = g.els
                /\ x_el_qty_old = m.x_el_qty_old
                /\ y_el_qty_old = m.y_el_qty_old
                /\ z_el_qty_old = m.z_el_qty_old
                /\ vol_max = g.vol_max
                /\ nodes = g.nodes
                /\ labels_to_observe_T_avg = <<>>
                /\ elements_to_observe_T_avg = <<>>
                /\ labels_to_observe_T_max = <<>>
                /\ elements_to_observe_T_max = <<>>
                /\ labels_to_observe_P = <<>>
                /\ elements_to_observe_P = <<>>
                /\ label_to_converge = "None"
                /\ elements_to_converge = <<>>
                /\ registered = {}
                /\ elements_to_power = <<>>
                /\ elements_to_CoE = <<>>
                /\ elements_to_prescribe_T = <<>>
                /\ df = <<>>
                /\ frame = NoFrame
                /\ hist = [solve |-> <<>>, step |-> <<>>, peak |-> RNone]
                /\ pc = "linked"
                /\ call = [name |-> "generate_nodes", args |-> <<>>, raised |-> "",
                           ops |-> 0]

\* what every registration call leaves alone
RegistrationFrame == UNCHANGED <<meshVars, solveVars, pc>>

observe_these_labels_T_avg ==
    \E list_of_labels_T \in LabelLists :
        /\ pc = "linked"
        /\ Ops < MaxRegistrations
        /\ \E r \in {ObserveTheseLabels(ThisMesh, labels_to_observe_T_avg,
                                        elements_to_observe_T_avg, list_of_labels_T)} :
            /\ labels_to_observe_T_avg' = r.labels
            /\ elements_to_observe_T_avg' = r.elements
            /\ registered' = IF r.raised = "" THEN registered \cup {"T_avg"} ELSE registered
            /\ call' = [name |-> "observe_these_labels_T_avg", args |-> list_of_labels_T,
                        raised |-> r.raised, ops |-> Ops + 1]
        /\ UNCHANGED <<labels_to_observe_T_max, elements_to_observe_T_max,
                       labels_to_observe_P, elements_to_observe_P,
                       label_to_converge, elements_to_converge>>
        /\ RegistrationFrame

observe_these_labels_T_max ==
    \E list_of_labels_T \in LabelLists :
        /\ pc = "linked"
        /\ Ops < MaxRegistrations
        /\ \E r \in {ObserveTheseLabels(ThisMesh, labels_to_observe_T_max,
                                        elements_to_observe_T_max, list_of_labels_T)} :
            /\ labels_to_observe_T_max' = r.labels
            /\ elements_to_observe_T_max' = r.elements
            /\ registered' = IF r.raised = "" THEN registered \cup {"T_max"} ELSE registered
            /\ call' = [name |-> "observe_these_labels_T_max", args |-> list_of_labels_T,
                        raised |-> r.raised, ops |-> Ops + 1]
        /\ UNCHANGED <<labels_to_observe_T_avg, elements_to_observe_T_avg,
                       labels_to_observe_P, elements_to_observe_P,
                       label_to_converge, elements_to_converge>>
        /\ RegistrationFrame

observe_these_labels_P ==
    \E list_of_labels_P \in LabelLists :
        /\ pc = "linked"
        /\ Ops < MaxRegistrations
        /\ \E r \in {ObserveTheseLabels(ThisMesh, labels_to_observe_P,
                                        elements_to_observe_P, list_of_labels_P)} :
            /\ labels_to_observe_P' = r.labels
            /\ elements_to_observe_P' = r.elements
            /\ registered' = IF r.raised = "" THEN registered \cup {"P"} ELSE registered
            /\ call' = [name |-> "observe_these_labels_P", args |-> list_of_labels_P,
                        raised |-> r.raised, ops |-> Ops + 1]
        /\ UNCHANGED <<labels_to_observe_T_avg, elements_to_observe_T_avg,
                       labels_to_observe_T_max, elements_to_observe_T_max,
                       label_to_converge, elements_to_converge>>
        /\ RegistrationFrame

converge_this_label_T ==
    \E my_label \in {cube, resistor} :
        /\ pc = "linked"
        /\ Ops < MaxRegistrations
        /\ \E r \in {ConvergeThisLabelT(ThisMesh, label_to_converge,
                                        elements_to_converge, my_label)} :
            /\ label_to_converge' = r.label
            /\ elements_to_converge' = r.elements
            /\ registered' = IF r.raised = "" THEN registered \cup {"converge"}
                             ELSE registered
            /\ call' = [name |-> "converge_this_label_T", args |-> my_label,
                        raised |-> r.raised, ops |-> Ops + 1]
        /\ UNCHANGED <<labels_to_observe_T_avg, elements_to_observe_T_avg,
                       labels_to_observe_T_max, elements_to_observe_T_max,
                       labels_to_observe_P, elements_to_observe_P>>
        /\ RegistrationFrame

NextObserve ==
    \/ observe_these_labels_T_avg
    \/ observe_these_labels_T_max
    \/ observe_these_labels_P
    \/ converge_this_label_T

SpecObserve == InitObserve /\ [][NextObserve]_vars

(***************************************************************************)
(* Properties of registration                                              *)
(***************************************************************************)
\* the kind a registration call registers
KindOf(name) ==
    CASE name = "observe_these_labels_T_avg" -> "T_avg"
      [] name = "observe_these_labels_T_max" -> "T_max"
      [] name = "observe_these_labels_P" -> "P"
      [] name = "converge_this_label_T" -> "converge"
      [] OTHER -> "none"

\* C15: for each of the four kinds, once a registration call of that kind has
\* completed, every later registration call of the same kind fails with an
\* error, whatever the labels of the first call were
C15_SecondRegistrationFails ==
    [][(call'.ops # call.ops /\ KindOf(call'.name) \in registered) =>
            call'.raised # ""]_vars

(***************************************************************************)
(* The solver, from a model a driver script has composed, linked and       *)
(* registered: create_volume of 1 mm cubes, modify_volume of one cell,     *)
(* generate_nodes, then the registration of the first material's label,    *)
(* and of the resistor's too for the maximum temperature and the power.    *)
(***************************************************************************)
SolveFills == {Fill(cube, Num(R(64)), Num(R(0))),
               Fill(resistor, Num(R(0)), Num(R(0))),
               Fill(resistor, Num(R(0)), Num(<<1, 125>>)),
               Fill(reservoir, Num(R(0)), Num(R(0))),
               Fill(resistor, Fn("ramp"), Fn("step")),
               Fill(reservoir, Fn("ramp"), Num(R(0))),
               Fill(cube, Num(R(0)), Num(R(0))),
               Fill(null, Num(R(0)), Num(R(0)))}

\* the element counts on x and y of the composed lattices
SolveShapes == {<<2, 1>>, <<3, 1>>, <<2, 2>>}

InitSolve ==
    \E shape \in SolveShapes, x_coord \in 0..2,
       f1 \in {Fill(cube, Num(R(64)), Num(R(0))), Fill(reservoir, Num(R(0)), Num(R(0)))},
       f2 \in SolveFills :
        /\ x_coord < shape[1]
        /\ \E m \in {ModifyVolume(
                        CreateVolume(Mesh(NoElements, <<>>, 0, 0, 0),
                                     Mm(shape[1]), Mm(shape[2]), Mm(1), Mm(1), Mm(1), Mm(1),
                                     f1.pr, f1.T, f1.P).m,
                        x_coord, 0, 0, 1, 1, 1, f2.pr, f2.T, f2.P).m} :
            \E g \in {GenerateNodes(m, <<>>, <<RNone, RNone, RNone>>)} :
                /\ g.raised = ""
                /\ elements = m.elements
                /\ els = g.els
                /\ x_el_qty_old = m.x_el_qty_old
                /\ y_el_qty_old = m.y_el_qty_old
                /\ z_el_qty_old = m.z_el_qty_old
                /\ vol_max = g.vol_max
                /\ nodes = g.nodes
                /\ labels_to_observe_T_avg = <<f1.pr>>
                /\ elements_to_observe_T_avg = <<ElementsWithLabel(m, f1.pr.label)>>
                /\ labels_to_observe_T_max = <<f1.pr, resistor>>
                /\ elements_to_observe_T_max = <<ElementsWithLabel(m, f1.pr.label),
                                                 ElementsWithLabel(m, resistor.label)>>
                /\ labels_to_observe_P = <<f1.pr, resistor>>
                /\ elements_to_observe_P = <<ElementsWithLabel(m, f1.pr.label),
                                             ElementsWithLabel(m, resistor.label)>>
                /\ label_to_converge = f1.pr.label
                /\ registered = Kinds
                /\ elements_to_converge = ElementsWithLabel(m, f1.pr.label)
                /\ elements_to_power = <<>>
                /\ elements_to_CoE = <<>>
                /\ elements_to_prescribe_T = <<>>
                /\ df = <<>>
                /\ frame = NoFrame
                /\ hist = [solve |-> <<>>, step |-> <<>>, peak |-> RNone]
                /\ pc = "ready"
                /\ call = [name |-> "converge_this_label_T", args |-> f1.pr,
                           raised |-> "", ops |-> 1]

\* dt_sampling / dt of a call: a multiple of dt as the docstring asks, or not
SamplingRatios == {R(1), <<3, 2>>, R(2), R(3)}

\* solve(dt, dt_sampling, t_max, dT_dt_converge): the pre-pass and the locals
SolveCall(dt, dt_sampling, t_max, dT_dt_converge) ==
    /\ elements_to_power' = elements_to_power \o PrePass(ThisMesh, "elements_to_power")
    /\ elements_to_CoE' = elements_to_CoE \o PrePass(ThisMesh, "elements_to_CoE")
    /\ elements_to_prescribe_T' =
            elements_to_prescribe_T \o PrePass(ThisMesh, "elements_to_prescribe_T")
    /\ frame' = [dt |-> dt, dt_sampling |-> dt_sampling, t_max |-> t_max,
                 dT_dt_converge |-> dT_dt_converge, iteration |-> 0,
                 iteration_interval_to_sample |-> RInt(RDiv(dt_sampling, dt)),
                 t_cur |-> R(0), T_to_converge_prev |-> RNone,
                 T_to_converge_cur |-> RNone, dT_dt_cur |-> RNone,
                 i |-> 0, exit |-> "", solves |-> frame.solves]
    /\ df' = <<>>
    /\ hist' = [solve |-> els, step |-> els, peak |-> R(0)]
    /\ pc' = "while"
    /\ call' = [name |-> "solve",
                args |-> [dt |-> dt, dt_sampling |-> dt_sampling,
                          t_max |-> t_max, dT_dt_converge |-> dT_dt_converge],
                raised |-> "", ops |-> Ops]
    /\ UNCHANGED <<meshVars, observeVars>>

\* a call of solve() for MaxSteps time steps
solve ==
    /\ pc = "ready"
    /\ frame.solves < MaxSolves
    /\ \E dt \in {<<1, 4>>, R(1)}, ratio \in SamplingRatios, dT_dt_converge \in {R(0), R(200)} :
        SolveCall(dt, RMul(ratio, dt), RMul(R(MaxSteps), dt), dT_dt_converge)

\* a time step whose multiples are not all floats: MantissaBits - 1 bits
LongDt == <<2 ^ (MantissaBits - 2) + 1, 4>>

\* a call of solve() for LongSteps time steps of LongDt
solve_long ==
    /\ pc = "ready"
    /\ frame.solves < MaxSolves
    /\ \E ratio \in {R(1), R(2)}, dT_dt_converge \in {R(0), R(200)} :
        SolveCall(LongDt, RMul(ratio, LongDt), FRound(RMul(R(LongSteps), LongDt)),
                  dT_dt_converge)

\* "while t_cur < t_max"
InLoop == RLt(frame.t_cur, frame.t_max)
\* "if iteration % iteration_interval_to_sample == 0"
Sampling == frame.iteration % frame.iteration_interval_to_sample = 0

\* the locals with a rate taken over the time step
SampledOverDt ==
    LET cur == ObserveTAvg(els, elements_to_converge)
    IN  [frame EXCEPT
            !.T_to_converge_prev = frame.T_to_converge_cur,
            !.T_to_converge_cur = cur,
            !.dT_dt_cur = IF frame.T_to_converge_cur # RNone
                          THEN RDiv(RSub(cur, frame.T_to_converge_cur), frame.dt)
                          ELSE @]

\* the locals after "observe temperature of converging elements" and
\* "calculate dT/dt of converging elements"
Sampled ==
    LET cur == ObserveTAvg(els, elements_to_converge)
    IN  [frame EXCEPT
            !.T_to_converge_prev = frame.T_to_converge_cur,
            !.T_to_converge_cur = cur,
            !.dT_dt_cur = IF frame.T_to_converge_cur # RNone
                          THEN RDiv(RSub(cur, frame.T_to_converge_cur), frame.dt_sampling)
                          ELSE @]

\* a check that tells convergence only for a temperature that still moves
ConvergedChanging(f) ==
    /\ f.dT_dt_cur # RNone
    /\ f.dT_dt_cur # R(0)
    /\ RLt(RAbs(f.dT_dt_cur), RAbs(f.dT_dt_converge))

\* a check that tells convergence only for a temperature that does not fall
ConvergedRising(f) ==
    /\ f.dT_dt_cur # RNone
    /\ RLe(R(0), f.dT_dt_cur)
    /\ RLt(f.dT_dt_cur, RAbs(f.dT_dt_converge))

\* "check for convergence"
Converged(f) ==
    f.dT_dt_cur # RNone /\ RLt(RAbs(f.dT_dt_cur), RAbs(f.dT_dt_converge))

\* the loop condition fails: solve() returns the table
solve_t_max ==
    /\ pc = "while"
    /\ ~InLoop
    /\ frame' = [frame EXCEPT !.exit = "t_max", !.solves = @ + 1]
    /\ pc' = "ready"
    /\ UNCHANGED <<meshVars, observeVars, elements_to_power, elements_to_CoE,
                   elements_to_prescribe_T, df, hist, call>>

\* a sampling iteration that finds the convergence rate under the threshold:
\* break, and solve() returns the table
solve_break ==
    /\ pc = "while"
    /\ InLoop /\ Sampling
    /\ Converged(Sampled)
    /\ frame' = [Sampled EXCEPT !.exit = "break", !.solves = @ + 1]
    /\ pc' = "ready"
    /\ UNCHANGED <<meshVars, observeVars, elements_to_power, elements_to_CoE,
                   elements_to_prescribe_T, df, hist, call>>

\* a sampling iteration that appends its row and goes on to the step
solve_sample ==
    /\ pc = "while"
    /\ InLoop /\ Sampling
    /\ ~Converged(Sampled)
    /\ df' = Append(df, RowData(els, frame.t_cur, elements_to_observe_T_avg,
                                elements_to_observe_T_max, elements_to_observe_P))
    /\ frame' = [Sampled EXCEPT !.i = 1]
    /\ hist' = [hist EXCEPT !.step = els]
    /\ pc' = "nodes"
    /\ UNCHANGED <<meshVars, observeVars, elements_to_power, elements_to_CoE,
                   elements_to_prescribe_T, call>>

\* an iteration between two samples goes on to the step
solve_no_sample ==
    /\ pc = "while"
    /\ InLoop /\ ~Sampling
    /\ frame' = [frame EXCEPT !.i = 1]
    /\ hist' = [hist EXCEPT !.step = els]
    /\ pc' = "nodes"
    /\ UNCHANGED <<meshVars, observeVars, elements_to_power, elements_to_CoE,
                   elements_to_prescribe_T, df, call>>

\* "for node in self.nodes: node.calculate_heattransfer(dt)", one iteration
\* or the end of the loop
for_nodes ==
    /\ pc = "nodes"
    /\ IF frame.i <= Len(nodes)
       THEN /\ els' = CalculateHeattransfer(els, nodes[frame.i], frame.dt)
            /\ frame' = [frame EXCEPT !.i = @ + 1]
            /\ pc' = pc
       ELSE /\ els' = els
            /\ frame' = [frame EXCEPT !.i = 1]
            /\ pc' = "power"
    /\ UNCHANGED <<elements, x_el_qty_old, y_el_qty_old, z_el_qty_old, vol_max, nodes,
                   observeVars, elements_to_power, elements_to_CoE,
                   elements_to_prescribe_T, df, hist, call>>

\* "for element in self.elements_to_power: element.self_heat(dt, t_cur)"
for_elements_to_power ==
    /\ pc = "power"
    /\ IF frame.i <= Len(elements_to_power)
       THEN /\ els' = [els EXCEPT ![elements_to_power[frame.i]] =
                                    SelfHeat(@, frame.dt, frame.t_cur)]
            /\ frame' = [frame EXCEPT !.i = @ + 1]
            /\ pc' = pc
       ELSE /\ els' = els
            /\ frame' = [frame EXCEPT !.i = 1]
            /\ pc' = "CoE"
    /\ UNCHANGED <<elements, x_el_qty_old, y_el_qty_old, z_el_qty_old, vol_max, nodes,
                   observeVars, elements_to_power, elements_to_CoE,
                   elements_to_prescribe_T, df, hist, call>>

\* "for element in self.elements_to_CoE: element.apply_energy_buffer()"
for_elements_to_CoE ==
    /\ pc = "CoE"
    /\ IF frame.i <= Len(elements_to_CoE)
       THEN /\ els' = [els EXCEPT ![elements_to_CoE[frame.i]] = ApplyEnergyBuffer(@)]
            /\ frame' = [frame EXCEPT !.i = @ + 1]
            /\ pc' = pc
       ELSE /\ els' = els
            /\ frame' = [frame EXCEPT !.i = 1]
            /\ pc' = "prescribe"
    /\ UNCHANGED <<elements, x_el_qty_old, y_el_qty_old, z_el_qty_old, vol_max, nodes,
                   observeVars, elements_to_power, elements_to_CoE,
                   elements_to_prescribe_T, df, hist, call>>

\* the magnitude of the convergence group's rate of temperature change over
\* the time step that ends
StepRate ==
    RAbs(RDiv(RSub(ObserveTAvg(els, elements_to_converge),
                   ObserveTAvg(hist.step, elements_to_converge)), frame.dt))

\* "for element in self.elements_to_prescribe_T: .. prescribe_temperature(t_cur)",
\* and after the loop "iteration += 1; t_cur += dt"
for_elements_to_prescribe_T ==
    /\ pc = "prescribe"
    /\ IF frame.i <= Len(elements_to_prescribe_T)
       THEN /\ els' = [els EXCEPT ![elements_to_prescribe_T[frame.i]] =
                                    PrescribeTemperature(@, frame.t_cur)]
            /\ frame' = [frame EXCEPT !.i = @ + 1]
            /\ pc' = pc
            /\ hist' = hist
       ELSE /\ els' = els
            /\ frame' = [frame EXCEPT !.i = 0, !.iteration = @ + 1,
                                      !.t_cur = FRound(RAdd(@, frame.dt))]
            /\ pc' = "while"
            /\ hist' = [hist EXCEPT !.peak = IF RLt(@, StepRate) THEN StepRate ELSE @]
    /\ UNCHANGED <<elements, x_el_qty_old, y_el_qty_old, z_el_qty_old, vol_max, nodes,
                   observeVars, elements_to_power, elements_to_CoE,
                   elements_to_prescribe_T, df, call>>

NextSolve ==
    \/ solve
    \/ solve_t_max
    \/ solve_break
    \/ solve_sample
    \/ solve_no_sample
    \/ for_nodes
    \/ for_elements_to_power
    \/ for_elements_to_CoE
    \/ for_elements_to_prescribe_T

SpecSolve == InitSolve /\ [][NextSolve]_vars

\* a call of solve() on a model that may have been solved before
solve_twice ==
    /\ pc = "ready"
    /\ frame.solves < MaxSolves + 1
    /\ \E ratio \in {R(1), R(2)}, dT_dt_converge \in {R(0), R(200)} :
        SolveCall(<<1, 4>>, RMul(ratio, <<1, 4>>), RMul(R(MaxSteps), <<1, 4>>),
                  dT_dt_converge)

NextSolveTwice ==
    \/ solve_twice
    \/ solve_t_max
    \/ solve_break
    \/ solve_sample
    \/ solve_no_sample
    \/ for_nodes
    \/ for_elements_to_power
    \/ for_elements_to_CoE
    \/ for_elements_to_prescribe_T

SpecSolveTwice == InitSolve /\ [][NextSolveTwice]_vars

NextSolveLong ==
    \/ solve_long
    \/ solve_t_max
    \/ solve_break
    \/ solve_sample
    \/ solve_no_sample
    \/ for_nodes
    \/ for_elements_to_power
    \/ for_elements_to_CoE
    \/ for_elements_to_prescribe_T

\* solve() is sequential code: a call that has started keeps running.  This
\* is weak fairness of the steps of the running call, written out: such a step
\* is enabled exactly when pc # "ready"
SolveRuns == []<>(pc = "ready") \/ []<><<pc # "ready" /\ NextSolve>>_vars

SpecSolveLong == InitSolve /\ [][NextSolveLong]_vars /\ SolveRuns

(***************************************************************************)
(* Properties of the solver step                                           *)
(***************************************************************************)
Temperatures(h) == [i \in 1..Len(h) |-> h[i].T]

\* C1: in every solver step all deposits (every link, then every powered
\* volume) come first and change no temperature; only then are the buffers of
\* the conservation set applied, and only after that are the prescribed
\* temperatures written
C1_DepositsBeforeTemperatures ==
    [][/\ pc = "while" => pc' \in {"nodes", "ready"} /\ Temperatures(els') = Temperatures(els)
       /\ pc = "nodes" =>
            /\ Temperatures(els') = Temperatures(els)
            /\ pc' = "nodes" \/ (pc' = "power" /\ frame.i = Len(nodes) + 1)
       /\ pc = "power" =>
            /\ Temperatures(els') = Temperatures(els)
            /\ pc' = "power" \/ (pc' = "CoE" /\ frame.i = Len(elements_to_power) + 1)
       /\ pc = "CoE" =>
            /\ \A i \in 1..Len(els) :
                els'[i].T # els[i].T => i = elements_to_CoE[frame.i]
            /\ pc' = "CoE" \/ (pc' = "prescribe" /\ frame.i = Len(elements_to_CoE) + 1)
       /\ pc = "prescribe" =>
            /\ \A i \in 1..Len(els) :
                els'[i].T # els[i].T => i = elements_to_prescribe_T[frame.i]
            /\ pc' = "prescribe"
               \/ (pc' = "while" /\ frame.i = Len(elements_to_prescribe_T) + 1)]_vars

\* a step with two links, a powered volume and a prescribed volume has come to
\* the prescribed temperatures, and the buffers have changed a temperature
C1_Witness ==
    /\ pc = "prescribe"
    /\ frame.i > 1
    /\ Len(nodes) >= 2
    /\ Len(elements_to_power) >= 1
    /\ \E i \in 1..Len(els) : ~els[i].T_is_prescribed /\ els[i].T # hist.step[i].T

\* the orders in which n links can be taken
LinkOrders(n) == {f \in [1..n -> 1..n] : \A a, b \in 1..n : f[a] = f[b] => a = b}

RECURSIVE AfterNodes(_, _, _)
AfterNodes(h, ns, dt) ==
    IF ns = <<>> THEN h ELSE AfterNodes(CalculateHeattransfer(h, Head(ns), dt), Tail(ns), dt)

RECURSIVE AfterPower(_, _, _, _)
AfterPower(h, es, dt, t) ==
    IF es = <<>> THEN h
    ELSE AfterPower([h EXCEPT ![Head(es)] = SelfHeat(@, dt, t)], Tail(es), dt, t)

RECURSIVE AfterCoE(_, _)
AfterCoE(h, es) ==
    IF es = <<>> THEN h
    ELSE AfterCoE([h EXCEPT ![Head(es)] = ApplyEnergyBuffer(@)], Tail(es))

RECURSIVE AfterPrescribe(_, _, _)
AfterPrescribe(h, es, t) ==
    IF es = <<>> THEN h
    ELSE AfterPrescribe([h EXCEPT ![Head(es)] = PrescribeTemperature(@, t)], Tail(es), t)

\* the heap after one solver step at time t, the links taken in the order ns
AfterStep(h, ns, dt, t) ==
    AfterPrescribe(AfterCoE(AfterPower(AfterNodes(h, ns, dt), elements_to_power, dt, t),
                            elements_to_CoE),
                   elements_to_prescribe_T, t)

\* a solver step has just ended
StepEnded == pc = "while" /\ frame.iteration > 0

\* C2: the state of all volumes after a solver step is the same for every
\* permutation of the link list
C2_LinkOrderIndependent ==
    StepEnded =>
        \A f \in LinkOrders(Len(nodes)) :
            AfterStep(hist.step, [r \in 1..Len(nodes) |-> nodes[f[r]]], frame.dt,
                      RSub(frame.t_cur, frame.dt)) = els

\* a step over four links has ended and has changed the volumes
C2_Witness ==
    /\ StepEnded
    /\ Len(nodes) = 4
    /\ Temperatures(els) # Temperatures(hist.step)

\* C3: compute_step(dt) of a link adds q = ((T_el2 - T_el1)/rth)*dt to the
\* buffer of one endpoint and -q to the other's; it changes no other buffer
\* and no temperature
C3_LinkDepositsCancel ==
    [][(pc = "nodes" /\ frame.i <= Len(nodes)) =>
        LET n == nodes[frame.i]
            q == RMul(RDiv(RSub(els[n.el2].T, els[n.el1].T), n.rth), frame.dt)
        IN  /\ els'[n.el1].energy_buffer = RAdd(els[n.el1].energy_buffer, q)
            /\ els'[n.el2].energy_buffer = RSub(els[n.el2].energy_buffer, q)
            /\ RAdd(RSub(els'[n.el1].energy_buffer, els[n.el1].energy_buffer),
                    RSub(els'[n.el2].energy_buffer, els[n.el2].energy_buffer)) = R(0)
            /\ \A i \in 1..Len(els) :
                /\ i \notin {n.el1, n.el2} => els'[i] = els[i]
                /\ [els'[i] EXCEPT !.energy_buffer = R(0)]
                     = [els[i] EXCEPT !.energy_buffer = R(0)]]_vars

\* a link between volumes of different temperature has made its deposits
C3_Witness ==
    /\ pc = "nodes"
    /\ frame.i > 1
    /\ els[nodes[frame.i - 1].el1].T # els[nodes[frame.i - 1].el2].T
    /\ els[nodes[frame.i - 1].el1].energy_buffer # R(0)

\* the conservation set and its total energy, the sum of T * capacitance
ConservationSet == {i \in 1..Len(els) : \E c \in Cells : Ref(c) = i /\ IsCoE(els[i])}

RECURSIVE Energy(_, _)
Energy(h, S) ==
    IF S = {} THEN R(0)
    ELSE LET i == CHOOSE i \in S : TRUE
         IN  RAdd(RMul(h[i].T, h[i].capacitance), Energy(h, S \ {i}))

\* all sources are zero, no volume is a reservoir, no temperature is prescribed
Insulated ==
    \A c \in Cells :
        /\ els[Ref(c)].P_is_constant /\ els[Ref(c)].P = R(0)
        /\ els[Ref(c)].eltype # "reservoir"
        /\ ~els[Ref(c)].T_is_prescribed

\* C4: with zero sources, no reservoir and no prescribed volume, the sum of
\* T * capacitance over the conservation set is after every solver step what
\* it was before the first step
C4_EnergyConserved ==
    (StepEnded /\ Insulated) =>
        Energy(els, ConservationSet) = Energy(hist.solve, ConservationSet)

\* two steps have moved heat between volumes of different capacitance
C4_Witness ==
    /\ StepEnded
    /\ Insulated
    /\ frame.iteration >= 2
    /\ Temperatures(els) # Temperatures(hist.solve)
    /\ \E i, j \in ConservationSet : els[i].capacitance # els[j].capacitance

(***************************************************************************)
(* Properties of the output table                                          *)
(***************************************************************************)
\* the maximum of T over a non-empty group of volumes
MaxOfGroup(h, group) ==
    CHOOSE T \in {h[group[r]].T : r \in 1..Len(group)} :
        \A r \in 1..Len(group) : RLe(h[group[r]].T, T)

\* the T_max cell of a row for the g-th registered label
TMaxCell(row, g) == row[1 + Len(elements_to_observe_T_avg) + g]

\* solve() appends a row in this step
RowAppended == Len(df') = Len(df) + 1

\* C16: for every non-empty observation group the max-temperature aggregation
\* returns the maximum of T over the group, whatever the sign of the
\* temperatures, and the T_max cell of a row is that maximum at the sampling
\* instant (rounded to 3 decimals like every cell)
C16_TMaxIsTheMaximum ==
    [][RowAppended =>
        \A g \in 1..Len(elements_to_observe_T_max) :
            elements_to_observe_T_max[g] # <<>> =>
                /\ ObserveTMax(els, elements_to_observe_T_max[g])
                     = MaxOfGroup(els, elements_to_observe_T_max[g])
                /\ TMaxCell(df'[Len(df')], g)
                     = Round3(MaxOfGroup(els, elements_to_observe_T_max[g]))]_vars

\* C17: the max-temperature of an empty observation group is an error, never
\* a sentinel value: solve() writes no row with a T_max cell for an empty group
C17_NoTMaxCellForEmptyGroup ==
    (\E g \in 1..Len(elements_to_observe_T_max) : elements_to_observe_T_max[g] = <<>>)
        => df = <<>>

(***************************************************************************)
(* Properties of the convergence exit                                      *)
(***************************************************************************)
\* a step of solve() from the head of a sampling iteration
SamplingIteration == pc = "while" /\ InLoop /\ Sampling /\ pc' # pc

\* the average temperature of the convergence group now
TNow == ObserveTAvg(els, elements_to_converge)

\* a previous sample exists and the rate since that sample is under the threshold
RateUnderThreshold ==
    /\ frame.T_to_converge_cur # RNone
    /\ RLt(RAbs(RDiv(RSub(TNow, frame.T_to_converge_cur), frame.dt_sampling)),
           frame.dT_dt_converge)

\* C18: at a sampling iteration with a previous sample and
\* |(T_now - T_prev)/dt_sampling| < threshold, solve() stops at once: no row is
\* appended, no volume is touched by a link, source, buffer or prescribed
\* update, and the last row of the table is the row of the previous sample (its
\* time is that of the previous sampling iteration and its T_avg cell is the
\* previous sample); at the first sampling iteration a row is always appended
C18_BreakRecordsNothing ==
    [][SamplingIteration =>
        /\ RateUnderThreshold =>
              /\ pc' = "ready" /\ frame'.exit = "break"
              /\ df' = df /\ els' = els
              /\ df # <<>>
              /\ df[Len(df)][1] =
                    RSub(frame.t_cur,
                         RMul(R(frame.iteration_interval_to_sample), frame.dt))
              /\ df[Len(df)][2] = Round3(frame.T_to_converge_cur)
        /\ frame.T_to_converge_cur = RNone =>
              /\ pc' = "nodes"
              /\ Len(df') = Len(df) + 1
              /\ df'[Len(df')][1] = frame.t_cur]_vars

\* solve() has returned by the break after a sample of a cooling group
C18_Witness ==
    /\ pc = "ready" /\ frame.exit = "break"
    /\ RLt(frame.dT_dt_cur, R(0))
    /\ Len(df) >= 1

\* solve() has returned
SolveReturned == pc = "ready" /\ frame.exit # ""

\* the threshold is larger than the magnitude of the convergence group's rate
\* of temperature change over every time step of the run
ThresholdAboveRate == RLt(hist.peak, frame.dT_dt_converge)

\* the return is by the break, before t reaches t_max, and the last row's time
\* is less than t_max
BrokeBeforeTMax ==
    /\ frame.exit = "break"
    /\ RLt(frame.t_cur, frame.t_max)
    /\ df # <<>>
    /\ RLt(df[Len(df)][1], frame.t_max)

\* C19 as stated: when the threshold is larger than the magnitude of the
\* convergence group's actual rate, solve() terminates by the convergence break
\* strictly before t reaches t_max and the last row's time is less than t_max
C19_ThresholdAboveRateBreaks ==
    (SolveReturned /\ ThresholdAboveRate) => BrokeBeforeTMax

\* C19 amended: the same, for a call with dt_sampling < t_max, so that a second
\* sample is taken before t reaches t_max
C19_ThresholdAboveRateBreaksAfterSecondSample ==
    (SolveReturned /\ ThresholdAboveRate /\ RLt(frame.dt_sampling, frame.t_max))
        => BrokeBeforeTMax

\* solve() has returned by the break for a group whose temperature was moving,
\* slower than the threshold
C19_Witness ==
    /\ SolveReturned /\ ThresholdAboveRate
    /\ RLt(frame.dt_sampling, frame.t_max)
    /\ RLt(R(0), hist.peak)
    /\ BrokeBeforeTMax

(***************************************************************************)
(* Properties of the time column                                           *)
(***************************************************************************)
\* the first row has time 0, two consecutive rows are dt_sampling apart, and
\* the rate of the last sample is the temperature difference over dt_sampling
UniformSampling ==
    /\ df # <<>> => df[1][1] = R(0)
    /\ \A r \in 2..Len(df) : RSub(df[r][1], df[r - 1][1]) = frame.dt_sampling
    /\ (frame.dT_dt_cur # RNone) =>
          frame.dT_dt_cur = RDiv(RSub(frame.T_to_converge_cur, frame.T_to_converge_prev),
                                 frame.dt_sampling)

\* dt_sampling is a positive whole multiple of dt
SamplingIsMultiple ==
    /\ frame.iteration_interval_to_sample >= 1
    /\ RMul(R(frame.iteration_interval_to_sample), frame.dt) = frame.dt_sampling

RCeil(a) == (a[1] + a[2] - 1) \div a[2]

\* solve() is inside a time step
InStep == pc \in {"nodes", "power", "CoE", "prescribe"}

\* C21: for dt > 0 and a finite t_max solve() always terminates, by the break
\* or at the first iteration boundary where t >= t_max, after at most
\* ceil(t_max/dt) steps; every step is executed at a time t < t_max and no row
\* is appended at or after the loop exit
C21_SolveTerminates ==
    /\ [](InStep => (RLt(frame.t_cur, frame.t_max)
                     /\ frame.iteration < RCeil(RDiv(frame.t_max, frame.dt))))
    /\ []((pc = "ready" /\ frame.exit = "t_max") =>
              (/\ RLe(frame.t_max, frame.t_cur)
               /\ RLt(RSub(frame.t_cur, frame.dt), frame.t_max)
               /\ frame.iteration <= RCeil(RDiv(frame.t_max, frame.dt))))
    /\ [][Len(df') > Len(df) => (pc = "while" /\ InLoop /\ pc' = "nodes")]_vars
    /\ (pc # "ready") ~> (pc = "ready" /\ frame.exit \in {"break", "t_max"})

(***************************************************************************)
(* Properties of the volumes with a prescribed temperature                 *)
(***************************************************************************)
\* C22: at the end of every solver step every volume whose temperature is
\* prescribed, of any element type, has energy_buffer zero, and its T is its
\* time-function at the step's pre-advance time
C22_PrescribedBufferIsZero ==
    StepEnded =>
        \A r \in 1..Len(els) :
            els[r].T_is_prescribed =>
                /\ els[r].energy_buffer = R(0)
                /\ els[r].T = CallFn(els[r].T_of_t, RSub(frame.t_cur, frame.dt))

(***************************************************************************)
(* Properties of the pre-pass of solve()                                   *)
(***************************************************************************)
\* the volumes a list of the solver refers to
SetOf(list) == {list[r] : r \in 1..Len(list)}

\* the volumes of the lattice
Volumes == {i \in 1..Len(els) : \E c \in Cells : Ref(c) = i}

\* the first solve() of a model is running: hist.solve is the frozen lattice
FirstSolveRuns == pc # "ready" /\ frame.solves = 0

\* the powered set and the prescribed set, as stated
PowerAndPrescribedSets ==
    /\ SetOf(elements_to_power) =
          {i \in Volumes : \/ hist.solve[i].P_is_constant /\ hist.solve[i].P # R(0)
                           \/ ~hist.solve[i].P_is_constant}
    /\ Len(elements_to_power) = Cardinality(SetOf(elements_to_power))
    /\ SetOf(elements_to_prescribe_T) = {i \in Volumes : hist.solve[i].T_is_prescribed}
    /\ Len(elements_to_prescribe_T) = Cardinality(SetOf(elements_to_prescribe_T))

\* a step of solve() that applies the buffer of volume i to its T
BufferApplied(i) ==
    /\ pc = "CoE" /\ frame.i <= Len(elements_to_CoE)
    /\ elements_to_CoE[frame.i] = i
    /\ frame'.i = frame.i + 1

\* C23 as stated: the pre-pass builds exactly the powered set (non-zero constant
\* source or time-varying source), the conservation set (neither null nor
\* reservoir, and temperature not prescribed) and the prescribed set
\* (temperature a time-function); only conservation-set volumes have their
\* buffer applied to T
C23_PrePassSets ==
    /\ [](FirstSolveRuns =>
            /\ PowerAndPrescribedSets
            /\ SetOf(elements_to_CoE) =
                  {i \in Volumes : /\ els[i].eltype \notin {"null", "reservoir"}
                                   /\ ~els[i].T_is_prescribed}
            /\ Len(elements_to_CoE) = Cardinality(SetOf(elements_to_CoE)))
    /\ [][\A i \in Volumes :
            (FirstSolveRuns /\ BufferApplied(i)) =>
                (els[i].eltype \notin {"null", "reservoir"} /\ ~els[i].T_is_prescribed)]_vars

\* C23 amended: the same, with the conservation set the volumes that are
\* neither null nor reservoir, those with a prescribed temperature included
C23_PrePassSetsWithPrescribedSolids ==
    /\ [](FirstSolveRuns =>
            /\ PowerAndPrescribedSets
            /\ SetOf(elements_to_CoE) =
                  {i \in Volumes : els[i].eltype \notin {"null", "reservoir"}}
            /\ Len(elements_to_CoE) = Cardinality(SetOf(elements_to_CoE)))
    /\ [][\A i \in Volumes :
            (FirstSolveRuns /\ BufferApplied(i)) =>
                els[i].eltype \notin {"null", "reservoir"}]_vars

\* the buffer of a solid volume with a prescribed temperature and a time-varying
\* source is about to be applied, next to a reservoir that is in no list
C23_Witness ==
    /\ FirstSolveRuns
    /\ pc = "CoE" /\ frame.i <= Len(elements_to_CoE)
    /\ els[elements_to_CoE[frame.i]].T_is_prescribed
    /\ elements_to_CoE[frame.i] \in SetOf(elements_to_power)
    /\ \E i \in Volumes : /\ els[i].eltype = "reservoir"
                          /\ i \notin SetOf(elements_to_power) \cup SetOf(elements_to_CoE)

(***************************************************************************)
(* Two adjacent identical cubes                                            *)
(***************************************************************************)
\* the lattice is two linked solid volumes of the same material and size, with
\* zero power and different constant initial temperatures
TwoCubes ==
    /\ Len(els) = 2 /\ Len(nodes) = 1
    /\ \A i \in 1..2 : /\ els[i].eltype = "solid" /\ els[i].label = els[1].label
                       /\ els[i].capacitance = els[1].capacitance
                       /\ ~els[i].T_is_prescribed
                       /\ els[i].P_is_constant /\ els[i].P = R(0)
    /\ hist.solve # <<>> /\ hist.solve[1].T # hist.solve[2].T

\* |T1 - T2| in the heap h
Gap(h) == RAbs(RSub(h[1].T, h[2].T))

\* C24: two adjacent identical solid cubes with different initial temperatures
\* and zero power, run by solve(): T1 + T2 stays what it was at every step,
\* |T1 - T2| is strictly smaller after each step than before it (so both
\* temperatures approach the mean), whatever the step dt
C24_TwoCubesEquilibrate ==
    (TwoCubes /\ StepEnded) =>
        /\ RAdd(els[1].T, els[2].T) = RAdd(hist.solve[1].T, hist.solve[2].T)
        /\ RLt(Gap(els), Gap(hist.step))

(***************************************************************************)
(* Link generation on lattices of three materials                          *)
(***************************************************************************)
\* the element counts on x, y and z of the lattices
LinkShapes == {<<1, 2, 2>>, <<2, 2, 1>>, <<2, 1, 2>>}
\* what a cell is modified to
LinkFills == {Fill(null, Num(R(0)), Num(R(0))),
              Fill(reservoir, Num(R(0)), Num(R(0))),
              Fill(resistor, Num(R(0)), Num(R(0)))}

\* a model as the composition calls of a script leave it: create_volume with
\* elements of 1 mm x 2 mm x 4 mm, then two modify_volume calls of one cell each
InitLink ==
    \E shape \in LinkShapes, f1 \in {Fill(cube, Num(R(64)), Num(R(0))),
                                     Fill(reservoir, Num(R(0)), Num(R(0)))},
       a \in Envelope(2, 2, 2), b \in Envelope(2, 2, 2), fa \in LinkFills, fb \in LinkFills :
        /\ \A r \in 1..3 : a[r] < shape[r] /\ b[r] < shape[r]
        /\ \E m \in {ModifyVolume(
                        ModifyVolume(
                            CreateVolume(Mesh(NoElements, <<>>, 0, 0, 0),
                                         Mm(shape[1]), Mm(2 * shape[2]), Mm(4 * shape[3]),
                                         Mm(1), Mm(2), Mm(4), f1.pr, f1.T, f1.P).m,
                            a[1], a[2], a[3], 1, 1, 1, fa.pr, fa.T, fa.P).m,
                        b[1], b[2], b[3], 1, 1, 1, fb.pr, fb.T, fb.P).m} :
            /\ elements = m.elements
            /\ els = m.els
            /\ x_el_qty_old = m.x_el_qty_old
            /\ y_el_qty_old = m.y_el_qty_old
            /\ z_el_qty_old = m.z_el_qty_old
            /\ vol_max = <<RNone, RNone, RNone>>
            /\ nodes = <<>>
            /\ labels_to_observe_T_avg = <<>>
            /\ elements_to_observe_T_avg = <<>>
            /\ labels_to_observe_T_max = <<>>
            /\ elements_to_observe_T_max = <<>>
            /\ labels_to_observe_P = <<>>
            /\ elements_to_observe_P = <<>>
            /\ label_to_converge = "None"
            /\ elements_to_converge = <<>>
            /\ registered = {}
            /\ elements_to_power = <<>>
            /\ elements_to_CoE = <<>>
            /\ elements_to_prescribe_T = <<>>
            /\ df = <<>>
            /\ frame = NoFrame
            /\ hist = [solve |-> <<>>, step |-> <<>>, peak |-> RNone]
            /\ pc = "compose"
            /\ call = [name |-> "modify_volume", args |-> <<>>, raised |-> "", ops |-> 2]

NextLink == generate_nodes

SpecLink == InitLink /\ [][NextLink]_vars

\* the axis along which two face-adjacent cells are adjacent
AxisOf(c, d) == IF c[1] # d[1] THEN "x" ELSE IF c[2] # d[2] THEN "y" ELSE "z"

\* the links between the volumes of cells c and d
LinksOf(c, d) ==
    {n \in 1..Len(nodes) : {nodes[n].el1, nodes[n].el2} = {Ref(c), Ref(d)}}

\* the sum of the half-resistances of the volumes of c and d along an axis
HalfSum(c, d, axis) ==
    IF axis = "x" THEN RAdd(els[Ref(c)].rth_x_half, els[Ref(d)].rth_x_half)
    ELSE IF axis = "y" THEN RAdd(els[Ref(c)].rth_y_half, els[Ref(d)].rth_y_half)
    ELSE RAdd(els[Ref(c)].rth_z_half, els[Ref(d)].rth_z_half)

\* volume j is in the adjacency list of volume i
Neighbour(i, j) == \E r \in 1..Len(els[i].neighbors) : els[i].neighbors[r] = j

\* C25 for the pair of cells c, d
LinkedOnce(c, d) ==
    /\ Cardinality(LinksOf(c, d)) = 1
    /\ \A n \in LinksOf(c, d) : nodes[n].rth = HalfSum(c, d, AxisOf(c, d))
    /\ Neighbour(Ref(c), Ref(d)) /\ Neighbour(Ref(d), Ref(c))

\* two face-adjacent cells whose volumes are both non-null and not both reservoir
Linkable(c, d) ==
    /\ FaceAdjacent(c, d)
    /\ els[Ref(c)].eltype # "null" /\ els[Ref(d)].eltype # "null"
    /\ ~(els[Ref(c)].eltype = "reservoir" /\ els[Ref(d)].eltype = "reservoir")

\* C25: after a single generate_links() call every pair of face-adjacent
\* volumes that are both non-null and not both reservoir has exactly one link,
\* on the axis along which they are adjacent, with the sum of their
\* half-resistances along that axis, and each is in the other's adjacency list
C25_LinkablePairsLinkedOnce ==
    Linked => \A c \in Cells, d \in Cells : Linkable(c, d) => LinkedOnce(c, d)

(***************************************************************************)
(* Reservoir and null volumes during solve()                               *)
(***************************************************************************)
\* volume i is of reservoir or null type and its temperature is not prescribed
Passive(i) == els[i].eltype \in {"reservoir", "null"} /\ ~els[i].T_is_prescribed

\* C26: during solve() a reservoir-type volume whose temperature is not
\* prescribed keeps the T it had before the solve started, whatever energy
\* links and sources deposit into its buffer; the same for a null-type volume
C26_PassiveVolumesKeepT ==
    frame.dt # RNone =>
        \A i \in Volumes : Passive(i) => els[i].T = hist.solve[i].T

\* a step has ended and a reservoir holds energy a link deposited in its buffer
C26_Witness ==
    /\ StepEnded
    /\ \E i \in Volumes : /\ Passive(i) /\ els[i].eltype = "reservoir"
                          /\ els[i].energy_buffer # R(0)
                          /\ els[i].T = hist.solve[i].T

(***************************************************************************)
(* Properties of the power column                                          *)
(***************************************************************************)
\* the heap with every source at its value at time t
SourcesAt(h, t) ==
    [i \in 1..Len(h) |->
        IF h[i].P_is_constant THEN h[i] ELSE [h[i] EXCEPT !.P = CallFn(h[i].P_of_t, t)]]

\* the P cell of a row for the g-th registered label
PCell(row, g) ==
    row[1 + Len(elements_to_observe_T_avg) + Len(elements_to_observe_T_max) + g]

\* a step of solve() in which volume i deposits its self-heating
SelfHeated(i) ==
    /\ pc = "power" /\ frame.i <= Len(elements_to_power)
    /\ elements_to_power[frame.i] = i
    /\ frame'.i = frame.i + 1

\* C27: in every row the power cell of a registered label is the sum, over the
\* volumes of the label, of the source value at the row's own time t (the
\* constant P, or P(t) for a time-varying source), rounded to 3 decimals like
\* every cell; a time-varying volume deposits P(t) * dt in the step that
\* starts at t
C27_PowerCellAtRowTime ==
    [][/\ RowAppended =>
            \A g \in 1..Len(elements_to_observe_P) :
                PCell(df'[Len(df')], g) =
                    Round3(ObserveP(SourcesAt(els, frame.t_cur), elements_to_observe_P[g]))
       /\ \A i \in 1..Len(els) :
            (SelfHeated(i) /\ ~els[i].P_is_constant) =>
                els'[i].energy_buffer =
                    RAdd(els[i].energy_buffer,
                         RMul(CallFn(els[i].P_of_t, frame.t_cur), frame.dt))]_vars

(***************************************************************************)
(* Properties of the buffers and of the lists over several solve() calls   *)
(***************************************************************************)
\* how many entries of a list refer to volume i
Count(list, i) == Cardinality({r \in 1..Len(list) : list[r] = i})

\* a step of solve() begins: the next thing is the first deposit of the step
StepBegins == pc = "nodes" /\ frame.i = 1

\* C28: for every volume of the conservation set energy_buffer is zero before
\* the first deposit of every solver step and zero again when the step ends,
\* and the buffer is applied to T exactly once per step: T increases by
\* buffer / capacitance, then the buffer is set to zero
C28_BufferAppliedOncePerStep ==
    /\ [](\A i \in SetOf(elements_to_CoE) :
            /\ (StepBegins \/ StepEnded) => els[i].energy_buffer = R(0)
            /\ pc = "CoE" => Count(elements_to_CoE, i) = 1)
    /\ [][\A i \in Volumes :
            BufferApplied(i) =>
                /\ els'[i].T = RAdd(els[i].T, RDiv(els[i].energy_buffer, els[i].capacitance))
                /\ els'[i].energy_buffer = R(0)]_vars

\* the energy volume i has received in the running step when the sources are done
AfterSources(i) ==
    RAdd(AfterNodes(hist.step, nodes, frame.dt)[i].energy_buffer,
         IF i \in SetOf(elements_to_power) THEN RMul(els[i].P, frame.dt) ELSE R(0))

\* C29: for any number of solve() calls on one model the powered, conservation
\* and prescribed lists of a solve hold each volume at most once, so that in
\* every step each powered volume deposits its P * dt exactly once: a second
\* solve() does not double the self-heating of a step
C29_ListsHoldEachVolumeOnce ==
    pc # "ready" =>
        /\ \A i \in Volumes : /\ Count(elements_to_power, i) <= 1
                              /\ Count(elements_to_CoE, i) <= 1
                              /\ Count(elements_to_prescribe_T, i) <= 1
        /\ pc = "CoE" /\ frame.i = 1 =>
              \A i \in Volumes : els[i].energy_buffer = AfterSources(i)

(***************************************************************************)
(* Properties of the composed lattice                                      *)
(***************************************************************************)
\* the lattice exists and the last composition call has returned or raised
Composed == pc = "compose" /\ ~elements.none

====
